---------------------------- MODULE Spec2Model ----------------------------
(***************************************************************************)
(* Model of the murphy resolver's target update engine (target.c):         *)
(* staleness predicates, stamp checkpointing and the transactional update  *)
(* of one target, driven through update_target_by_name/update_target_by_id.*)
(*                                                                         *)
(* Target and fact ids are 0-based as in the C arrays.  An index list      *)
(* (update_facts, update_targets) is a sequence terminated by a negative   *)
(* sentinel, as in the source; a NULL list is the empty sequence.          *)
(***************************************************************************)
EXTENDS Integers, Sequences, FiniteSets, TLC

(***************************************************************************)
(* Bounds of the model.                                                    *)
(***************************************************************************)
\* fact stamps range over 0..MaxStamp; writers stop at MaxStamp
MaxStamp == 2

(***************************************************************************)
(* Program constants.                                                      *)
(***************************************************************************)
C_TRUE  == 1
C_FALSE == 0
EINVAL  == 22
ENOENT  == 2

\* a NULL index list / array
NULL == << >>

\* the negative sentinel that terminates an index list
SENTINEL == 0 - 1

\* values errno can hold when the store reports a failure
ErrnoValues == {0, ENOENT}

\* statuses a script can return: <= 0 is failure, > 0 is success
ScriptStatus == {0 - 1, C_FALSE, C_TRUE, C_TRUE + 1}

\* indeterminate contents of the uninitialized stamp buffer
Garbage == {0, MaxStamp}

(***************************************************************************)
(* Registries the engine is run on.  A target record carries the fields of *)
(* target_t that the update engine reads or writes.                        *)
(***************************************************************************)
Target(name, facts, order) ==
    [name           |-> name,
     update_facts   |-> facts,
     update_targets |-> order,
     fact_stamps    |-> IF facts = NULL THEN NULL
                        ELSE [k \in 1..(Len(facts) - 1) |-> 0],
     stamp          |-> 0]

\* chain C -> B -> A; A tracks fact 0, B tracks fact 1, C tracks no fact;
\* B is the auto-update target
ChainRegistry ==
    [targets |-> << Target("A", <<0, SENTINEL>>, <<0, SENTINEL>>),
                    Target("B", <<1, SENTINEL>>, <<0, 1, SENTINEL>>),
                    Target("C", NULL,            <<0, 1, 2, SENTINEL>>) >>,
     ntarget     |-> 3,
     nfact       |-> 2,
     auto_update |-> 1]

\* D tracks no fact; E depends on D and tracks both facts; no auto-update
\* target is designated (auto_update is NULL)
PairRegistry ==
    [targets |-> << Target("D", NULL,                <<0, SENTINEL>>),
                    Target("E", <<1, 0, SENTINEL>>, <<0, 1, SENTINEL>>) >>,
     ntarget     |-> 2,
     nfact       |-> 2,
     auto_update |-> SENTINEL]

Registries == {ChainRegistry, PairRegistry}

\* names a caller may ask for, one of them matching no target
Names == {"A", "B", "C", "D", "E", "missing"}

VARIABLES
    r,            \* the resolver: targets, ntarget, nfact
    fact,         \* store: current stamp of each fact (what fact_stamp reads)
    committed,    \* store: stamp of each fact as last committed
    txn,          \* store: state of the request's transaction
    errno,        \* errno as left by the last failing store call
    pc,           \* position of the engine: idle, walk, own, resolve, returned
    t,            \* update_target: the subject's id
    i,            \* update_target: index into t->update_targets
    status,       \* update_target: status
    needs_update, \* update_target: needs_update
    stamps,       \* update_target: the snapshot buffer
    ret,          \* value returned by the request
    pre,          \* history: r->targets when the request started
    executed,     \* history: procedures executed in this request, in order
    ncommit,      \* history: calls of commit_transaction in this request
    nrollback,    \* history: calls of rollback_transaction in this request
    req,          \* history: the call that started this request
    first,        \* history: no request has returned since construction
    last,         \* history: the previous request, while it is remembered
    b,            \* construction: create_targets at work
    s,            \* construction: the dependency sort at work
    nest,         \* re-entry: the request suspended while a procedure runs
    wsl,          \* websockets: the context, its sockets, the event handler
    poll,         \* websockets: the polled descriptors and their epoll set
    cnd,          \* mdb: a condition and its evaluation
    zone          \* zones: the zone definition and the zone table

\* the update engine and the store
engine == << r, fact, committed, txn, errno, pc, t, i, status, needs_update,
             stamps, ret, pre, executed, ncommit, nrollback, req, first,
             last >>

\* the libraries beside the resolver
libs == << wsl, poll, cnd, zone >>

\* what the engine, the builder and the sorter leave alone
rest == << nest, libs >>

vars == << engine, b, s, rest >>

Facts(rr)     == 0..(rr.nfact - 1)
TargetIds(rr) == 0..(rr.ntarget - 1)

\* r->targets + id
target(rr, id) == rr.targets[id + 1]

\* number of entries of an index list before its sentinel
ListLen(l) ==
    (CHOOSE k \in 1..Len(l) : l[k] < 0 /\ \A j \in 1..(k - 1) : l[j] >= 0) - 1

\* l[i] of a 0-based C array
At(l, k) == l[k + 1]


(***************************************************************************)
(* The fact store, at its boundary.                                        *)
(***************************************************************************)
\* fact_stamp(r, id): the current stamp of fact id
fact_stamp(fs, id) == fs[id]

(***************************************************************************)
(* Staleness predicates.                                                   *)
(***************************************************************************)
older_than_facts_nofacts_fresh(rr, fs, id) ==
    LET tg == target(rr, id) IN
    IF tg.update_facts = NULL
    THEN FALSE
    ELSE \E k \in 0..(ListLen(tg.update_facts) - 1) :
            fact_stamp(fs, At(tg.update_facts, k)) > At(tg.fact_stamps, k)

older_than_facts_not_older_stamp(rr, fs, id) ==
    LET tg == target(rr, id) IN
    IF tg.update_facts = NULL
    THEN TRUE
    ELSE \E k \in 0..(ListLen(tg.update_facts) - 1) :
            fact_stamp(fs, At(tg.update_facts, k)) >= At(tg.fact_stamps, k)

older_than_facts_at_start(rr, fs, id) ==
    LET tg == target(rr, id) IN
    IF tg.update_facts = NULL
    THEN TRUE
    ELSE \E k \in 0..(ListLen(tg.update_facts) - 1) :
            fact_stamp(committed, At(tg.update_facts, k)) > At(tg.fact_stamps, k)

older_than_facts(rr, fs, id) ==
    LET tg == target(rr, id) IN
    IF tg.update_facts = NULL
    THEN TRUE
    ELSE \E k \in 0..(ListLen(tg.update_facts) - 1) :
            fact_stamp(fs, At(tg.update_facts, k)) > At(tg.fact_stamps, k)

older_than_targets(rr, id) ==
    LET tg == target(rr, id) IN
    \E k \in 0..(ListLen(tg.update_targets) - 1) :
        target(rr, At(tg.update_targets, k)).stamp > tg.stamp

(***************************************************************************)
(* Stamp checkpointing.  The buffer is a flat array of ntarget * nfact     *)
(* slots; target id owns the slots from id * nfact on.                     *)
(***************************************************************************)
BufSlots(rr) == 0..(rr.ntarget * rr.nfact - 1)

save_fact_stamps_unscaled(rr, id, buf) ==
    LET tg  == target(rr, id)
        idx == id
    IN  IF tg.update_facts = NULL
        THEN buf
        ELSE [k \in DOMAIN buf |->
                IF k >= idx /\ k < idx + ListLen(tg.update_facts)
                THEN At(tg.fact_stamps, k - idx)
                ELSE buf[k]]

save_fact_stamps(rr, id, buf) ==
    LET tg  == target(rr, id)
        idx == id * rr.nfact
    IN  IF tg.update_facts = NULL
        THEN buf
        ELSE [k \in DOMAIN buf |->
                IF k >= idx /\ k < idx + ListLen(tg.update_facts)
                THEN At(tg.fact_stamps, k - idx)
                ELSE buf[k]]

restore_fact_stamps_unscaled(rr, id, buf) ==
    LET tg  == target(rr, id)
        idx == id
    IN  IF tg.update_facts = NULL
        THEN rr
        ELSE [rr EXCEPT !.targets[id + 1].fact_stamps =
                [k \in 1..ListLen(tg.update_facts) |-> buf[idx + k - 1]]]

restore_fact_stamps(rr, id, buf) ==
    LET tg  == target(rr, id)
        idx == id * rr.nfact
    IN  IF tg.update_facts = NULL
        THEN rr
        ELSE [rr EXCEPT !.targets[id + 1].fact_stamps =
                [k \in 1..ListLen(tg.update_facts) |-> buf[idx + k - 1]]]

RECURSIVE save_from(_, _, _, _)
save_from(rr, id, k, buf) ==
    LET dep == At(target(rr, id).update_targets, k) IN
    IF dep < 0 THEN buf
    ELSE save_from(rr, id, k + 1, save_fact_stamps(rr, dep, buf))

save_target_stamps(rr, id, buf) == save_from(rr, id, 0, buf)

RECURSIVE restore_from(_, _, _, _)
restore_from(rr, id, k, buf) ==
    LET dep == At(target(rr, id).update_targets, k) IN
    IF dep < 0 THEN rr
    ELSE restore_from(restore_fact_stamps(rr, dep, buf), id, k + 1, buf)

restore_target_stamps_subject_only(rr, id, buf) ==
    restore_fact_stamps(rr, id, buf)

restore_target_stamps(rr, id, buf) == restore_from(rr, id, 0, buf)

update_target_stamps_committed(rr, fs, id) ==
    LET tg == target(rr, id) IN
    IF tg.update_facts = NULL
    THEN rr
    ELSE [rr EXCEPT !.targets[id + 1].fact_stamps =
            [k \in 1..ListLen(tg.update_facts) |->
                committed[At(tg.update_facts, k - 1)]]]

update_target_stamps_into_update_facts(rr, fs, id) ==
    LET tg == target(rr, id) IN
    IF tg.update_facts = NULL
    THEN rr
    ELSE [rr EXCEPT !.targets[id + 1].update_facts =
            [k \in 1..ListLen(tg.update_facts) |->
                fact_stamp(fs, At(tg.update_facts, k - 1))]
            \o << SENTINEL >>]

update_target_stamps(rr, fs, id) ==
    LET tg == target(rr, id) IN
    IF tg.update_facts = NULL
    THEN rr
    ELSE [rr EXCEPT !.targets[id + 1].fact_stamps =
            [k \in 1..ListLen(tg.update_facts) |->
                fact_stamp(fs, At(tg.update_facts, k - 1))]]

(***************************************************************************)
(* State of the engine between requests.                                   *)
(***************************************************************************)
NoTarget == SENTINEL

NoRequest == [op |-> "none", name |-> "", id |-> NoTarget]

NoLast == [id |-> NoTarget, dirty |-> FALSE, ran |-> FALSE]

\* construction is over while the engine runs
Built == [pc |-> "off"]

ClearRequest ==
    /\ t' = NoTarget
    /\ i' = 0
    /\ status' = C_FALSE
    /\ needs_update' = FALSE
    /\ stamps' = NULL
    /\ ret' = C_FALSE
    /\ pre' = NULL
    /\ executed' = << >>
    /\ ncommit' = 0
    /\ nrollback' = 0
    /\ req' = NoRequest

\* no request is suspended, none has run inside the current one
NoInner == [t |-> NoTarget, committed |-> FALSE, targets |-> NULL]

NoNest == [depth |-> 0, frame |-> NULL, savepoint |-> NULL, inner |-> NoInner]

\* the current request runs inside a procedure of a suspended one, in a
\* transaction nested in that request's
Nested == nest.depth > 0

\* the libraries are not in use while the resolver is examined
LibsOff == /\ wsl = Built /\ poll = Built /\ cnd = Built /\ zone = Built

RestOff == /\ nest = NoNest /\ LibsOff

EngineIdle ==
    /\ fact = [f \in Facts(r) |-> 0]
    /\ committed = fact
    /\ txn = "none"
    /\ errno = 0
    /\ pc = "idle"
    /\ t = NoTarget
    /\ i = 0
    /\ status = C_FALSE
    /\ needs_update = FALSE
    /\ stamps = NULL
    /\ ret = C_FALSE
    /\ pre = NULL
    /\ executed = << >>
    /\ ncommit = 0
    /\ nrollback = 0
    /\ req = NoRequest
    /\ first = TRUE
    /\ last = NoLast

EngineStart ==
    /\ RestOff
    /\ EngineIdle

\* the resolver built and idle while a library is examined
ResolverIdle ==
    /\ r = PairRegistry
    /\ EngineIdle
    /\ b = Built
    /\ s = Built
    /\ nest = NoNest

EngineInit ==
    /\ r \in Registries
    /\ EngineStart

Init ==
    /\ EngineInit
    /\ b = Built
    /\ s = Built

(***************************************************************************)
(* What a script does to the store: it raises the stamps of the facts it   *)
(* writes, inside the open transaction.                                    *)
(***************************************************************************)
Writable == {f \in Facts(r) : fact[f] < MaxStamp}

Written(W) == [f \in Facts(r) |-> IF f \in W THEN fact[f] + 1 ELSE fact[f]]

\* the status derived from errno after a failing store call
errno_status_positive(e) == IF e # 0 THEN e ELSE EINVAL

errno_status(e) == IF e # 0 THEN 0 - e ELSE 0 - EINVAL

(***************************************************************************)
(* update_target, lines 257-269: open the transaction, snapshot, and set   *)
(* status and needs_update.                                                *)
(***************************************************************************)
StartFailed(id) ==
    /\ \E e \in ErrnoValues :
        /\ errno' = e
        /\ ret' = errno_status(e)
    /\ pc' = "returned"
    /\ t' = id
    /\ pre' = r.targets
    /\ UNCHANGED << r, fact, committed, txn, i, status, needs_update, stamps,
                    executed, ncommit, nrollback >>

StartOpened_needs_update(id) ==
    /\ txn' = "open"
    /\ \E g \in Garbage :
        stamps' = save_target_stamps(r, id, [k \in BufSlots(r) |-> g])
    /\ status' = C_TRUE
    /\ needs_update' = TRUE
    /\ i' = 0
    /\ t' = id
    /\ pre' = r.targets
    /\ pc' = "walk"
    /\ UNCHANGED << r, fact, committed, errno, ret, executed, ncommit,
                    nrollback >>

StartOpened(id) ==
    /\ txn' = "open"
    /\ \E g \in Garbage :
        stamps' = save_target_stamps(r, id, [k \in BufSlots(r) |-> g])
    /\ status' = C_TRUE
    /\ needs_update' = older_than_facts(r, fact, id)
    /\ i' = 0
    /\ t' = id
    /\ pre' = r.targets
    /\ pc' = "walk"
    /\ UNCHANGED << r, fact, committed, errno, ret, executed, ncommit,
                    nrollback >>

update_target(id) == StartFailed(id) \/ StartOpened(id)

not_found_true ==
    /\ pc' = "returned"
    /\ ret' = C_TRUE
    /\ pre' = r.targets
    /\ UNCHANGED << r, fact, committed, txn, errno, t, i, status,
                    needs_update, stamps, executed, ncommit, nrollback >>

NotFound ==
    /\ pc' = "returned"
    /\ ret' = C_FALSE
    /\ pre' = r.targets
    /\ UNCHANGED << r, fact, committed, txn, errno, t, i, status,
                    needs_update, stamps, executed, ncommit, nrollback >>

\* the first target whose name matches, or NoTarget
find_by_name(name) ==
    IF \E id \in TargetIds(r) : target(r, id).name = name
    THEN CHOOSE id \in TargetIds(r) :
            /\ target(r, id).name = name
            /\ \A j \in 0..(id - 1) : target(r, j).name # name
    ELSE NoTarget

update_target_by_name_default(name) ==
    /\ pc = "idle"
    /\ req' = [op |-> "by_name", name |-> name, id |-> NoTarget]
    /\ UNCHANGED << first, last, b, s, rest >>
    /\ IF find_by_name(name) # NoTarget
       THEN update_target(find_by_name(name))
       ELSE update_target(0)

update_target_by_name(name) ==
    /\ pc = "idle"
    /\ req' = [op |-> "by_name", name |-> name, id |-> NoTarget]
    /\ UNCHANGED << first, last, b, s, rest >>
    /\ IF find_by_name(name) # NoTarget
       THEN update_target(find_by_name(name))
       ELSE NotFound

\* update_target(r, r->targets + id) with id < 0: start_transaction is
\* called as for any target (lines 257-264); save_target_stamps then reads
\* t->update_targets of a record that is not in the array (line 266), and
\* what follows is undefined
update_target_outside(id) ==
    \/ StartFailed(id)
    \/ /\ txn' = "open"
       /\ t' = id
       /\ pre' = r.targets
       /\ pc' = "undefined"
       /\ UNCHANGED << r, fact, committed, errno, i, status, needs_update,
                       stamps, ret, executed, ncommit, nrollback >>

update_target_by_id_wraps(id) ==
    /\ pc = "idle"
    /\ req' = [op |-> "by_id", name |-> "", id |-> id]
    /\ UNCHANGED << first, last, b, s, rest >>
    /\ IF id <= r.ntarget
       THEN update_target(id % r.ntarget)
       ELSE NotFound

update_target_by_id(id) ==
    /\ pc = "idle"
    /\ req' = [op |-> "by_id", name |-> "", id |-> id]
    /\ UNCHANGED << first, last, b, s, rest >>
    /\ IF id < r.ntarget
       THEN IF id >= 0 THEN update_target(id) ELSE update_target_outside(id)
       ELSE NotFound

(***************************************************************************)
(* mrp_execute_script on target id: the script returns st and has written  *)
(* the facts W.  The history keeps what the store reported when it         *)
(* returned, and whether the target was older than its facts once its      *)
(* stamps were (or were not) re-synced.                                    *)
(***************************************************************************)
Executed(id, st, fs, rr) ==
    Append(executed, [id     |-> id,
                      status |-> st,
                      facts  |-> fs,
                      wrote  |-> {f \in Facts(r) : fs[f] # fact[f]},
                      older  |-> older_than_facts(rr, fs, id)])

\* lines 278, 280-285 with the walk's loop control
walk_exec_no_break(dep, st, W) ==
    /\ needs_update' = TRUE
    /\ status' = st
    /\ fact' = Written(W)
    /\ IF st <= 0
       THEN /\ r' = r
            /\ i' = i + 1
            /\ pc' = "walk"
       ELSE /\ r' = update_target_stamps(r, fact', dep)
            /\ i' = i + 1
            /\ pc' = "walk"
    /\ executed' = Executed(dep, st, fact', r')

walk_exec_keeps_needs_update(dep, st, W) ==
    /\ needs_update' = needs_update
    /\ status' = st
    /\ fact' = Written(W)
    /\ IF st <= 0
       THEN /\ r' = r
            /\ i' = i
            /\ pc' = "own"
       ELSE /\ r' = update_target_stamps(r, fact', dep)
            /\ i' = i + 1
            /\ pc' = "walk"
    /\ executed' = Executed(dep, st, fact', r')

walk_exec(dep, st, W) ==
    /\ needs_update' = TRUE
    /\ status' = st
    /\ fact' = Written(W)
    /\ IF st <= 0
       THEN /\ r' = r
            /\ i' = i
            /\ pc' = "own"
       ELSE /\ r' = update_target_stamps(r, fact', dep)
            /\ i' = i + 1
            /\ pc' = "walk"
    /\ executed' = Executed(dep, st, fact', r')

WalkDep_backwards ==
    LET ut == target(r, t).update_targets
        n  == ListLen(ut)
    IN  IF i < n - 1 THEN At(ut, n - 2 - i) ELSE At(ut, i)

\* the dependency at the walk's position
WalkDep == At(target(r, t).update_targets, i)

WalkEnd ==
    /\ pc = "walk"
    /\ WalkDep < 0 \/ WalkDep = t
    /\ pc' = "own"
    /\ UNCHANGED << r, fact, committed, txn, errno, t, i, status,
                    needs_update, stamps, ret, pre, executed, ncommit,
                    nrollback, req,
                    first, last, b, s, rest >>

WalkFresh ==
    /\ pc = "walk"
    /\ WalkDep >= 0 /\ WalkDep # t
    /\ ~ (older_than_facts(r, fact, WalkDep) \/ older_than_targets(r, WalkDep))
    /\ i' = i + 1
    /\ UNCHANGED << r, fact, committed, txn, errno, pc, t, status,
                    needs_update, stamps, ret, pre, executed, ncommit,
                    nrollback, req,
                    first, last, b, s, rest >>

WalkExec ==
    /\ pc = "walk"
    /\ WalkDep >= 0 /\ WalkDep # t
    /\ older_than_facts(r, fact, WalkDep) \/ older_than_targets(r, WalkDep)
    /\ \E st \in ScriptStatus : \E W \in SUBSET Writable :
          walk_exec(WalkDep, st, W)
    /\ UNCHANGED << committed, txn, errno, t, stamps, ret, pre, ncommit,
                    nrollback, req,
                    first, last, b, s, rest >>

\* lines 289-294: the subject's own procedure
own_exec(st, W) ==
    /\ status' = st
    /\ fact' = Written(W)
    /\ r' = IF st > 0 THEN update_target_stamps(r, fact', t) ELSE r
    /\ executed' = Executed(t, st, fact', r')

OwnExec ==
    /\ pc = "own"
    /\ needs_update /\ status > 0
    /\ \E st \in ScriptStatus : \E W \in SUBSET Writable : own_exec(st, W)
    /\ pc' = "resolve"
    /\ UNCHANGED << committed, txn, errno, t, i, needs_update, stamps, ret,
                    pre, ncommit, nrollback, req,
                    first, last, b, s, rest >>

OwnSkip ==
    /\ pc = "own"
    /\ ~ (needs_update /\ status > 0)
    /\ pc' = "resolve"
    /\ UNCHANGED << r, fact, committed, txn, errno, t, i, status,
                    needs_update, stamps, ret, pre, executed, ncommit,
                    nrollback, req,
                    first, last, b, s, rest >>

(***************************************************************************)
(* The store's transaction calls.  rollback_transaction discards what the  *)
(* transaction wrote; commit_transaction makes it the committed state, or  *)
(* fails and leaves nothing of the transaction.  A transaction nested in   *)
(* another one commits into it and rolls back to where it started.         *)
(***************************************************************************)
rollback_transaction ==
    /\ nrollback' = nrollback + 1
    /\ txn' = "rolledback"
    /\ fact' = IF Nested THEN nest.savepoint ELSE committed
    /\ UNCHANGED << committed, ncommit >>

commit_transaction(ok) ==
    /\ ncommit' = ncommit + 1
    /\ IF ok
       THEN /\ txn' = "committed"
            /\ committed' = IF Nested THEN committed ELSE fact
            /\ fact' = fact
       ELSE /\ txn' = "rolledback"
            /\ fact' = IF Nested THEN nest.savepoint ELSE committed
            /\ committed' = committed
    /\ UNCHANGED nrollback

\* lines 296-299
resolve_failed_no_rollback ==
    /\ r' = restore_target_stamps(r, t, stamps)
    /\ ret' = status
    /\ UNCHANGED << errno, fact, committed, txn, ncommit, nrollback >>

resolve_failed_no_restore ==
    /\ rollback_transaction
    /\ r' = r
    /\ ret' = status
    /\ UNCHANGED errno

resolve_failed ==
    /\ rollback_transaction
    /\ r' = restore_target_stamps(r, t, stamps)
    /\ ret' = status
    /\ UNCHANGED errno

\* lines 300-308
resolve_commit_no_restore(ok) ==
    /\ commit_transaction(ok)
    /\ IF ok
       THEN /\ ret' = status
            /\ UNCHANGED << r, errno >>
       ELSE /\ r' = r
            /\ \E e \in ErrnoValues :
                /\ errno' = e
                /\ ret' = errno_status(e)

resolve_commit_returns_true(ok) ==
    /\ commit_transaction(ok)
    /\ IF ok
       THEN /\ ret' = C_TRUE
            /\ UNCHANGED << r, errno >>
       ELSE /\ r' = restore_target_stamps(r, t, stamps)
            /\ \E e \in ErrnoValues :
                /\ errno' = e
                /\ ret' = errno_status(e)

resolve_commit(ok) ==
    /\ commit_transaction(ok)
    /\ IF ok
       THEN /\ ret' = status
            /\ UNCHANGED << r, errno >>
       ELSE /\ r' = restore_target_stamps(r, t, stamps)
            /\ \E e \in ErrnoValues :
                /\ errno' = e
                /\ ret' = errno_status(e)

ResolveFailed ==
    /\ pc = "resolve"
    /\ status <= 0
    /\ resolve_failed
    /\ pc' = "returned"
    /\ stamps' = NULL
    /\ UNCHANGED << t, i, status, needs_update, pre, executed, req,
                    first, last, b, s, rest >>

ResolveCommit ==
    /\ pc = "resolve"
    /\ status > 0
    /\ \E ok \in BOOLEAN : resolve_commit(ok)
    /\ pc' = "returned"
    /\ stamps' = NULL
    /\ UNCHANGED << t, i, status, needs_update, pre, executed, req,
                    first, last, b, s, rest >>

(***************************************************************************)
(* autoupdate_target: update the designated target through the resolver's  *)
(* update-by-name entry, or succeed at once when none is designated.       *)
(***************************************************************************)
\* mrp_resolver_update_targetl(r, name, NULL)
mrp_resolver_update_targetl(name) ==
    IF find_by_name(name) # NoTarget
    THEN update_target(find_by_name(name))
    ELSE NotFound

\* line 342: return TRUE
NoAutoUpdate ==
    /\ pc' = "returned"
    /\ ret' = C_TRUE
    /\ pre' = r.targets
    /\ UNCHANGED << r, fact, committed, txn, errno, t, i, status,
                    needs_update, stamps, executed, ncommit, nrollback >>

autoupdate_target_first_target ==
    /\ pc = "idle"
    /\ req' = [op |-> "autoupdate", name |-> "", id |-> NoTarget]
    /\ UNCHANGED << first, last, b, s, rest >>
    /\ IF r.auto_update # NoTarget
       THEN mrp_resolver_update_targetl(target(r, r.auto_update).name)
       ELSE mrp_resolver_update_targetl(target(r, 0).name)

autoupdate_target ==
    /\ pc = "idle"
    /\ req' = [op |-> "autoupdate", name |-> "", id |-> NoTarget]
    /\ UNCHANGED << first, last, b, s, rest >>
    /\ IF r.auto_update # NoTarget
       THEN mrp_resolver_update_targetl(target(r, r.auto_update).name)
       ELSE NoAutoUpdate

(***************************************************************************)
(* History of the request that has just returned.                          *)
(***************************************************************************)
\* the position of target d in the update order of target id
Pos(id, d) ==
    LET ut == target(r, id).update_targets IN
    CHOOSE k \in 0..(ListLen(ut) - 1) : At(ut, k) = d

\* target d tracks fact f
Tracks(d, f) ==
    LET uf == target(r, d).update_facts IN
    uf # NULL /\ \E k \in 0..(ListLen(uf) - 1) : At(uf, k) = f

\* some procedure of this request wrote a fact tracked by a target that
\* comes before its own target in the subject's update order
WroteBehind ==
    \E k \in 1..Len(executed) :
        \E n \in 0..(Pos(t, executed[k].id) - 1) :
            \E f \in executed[k].wrote :
                Tracks(At(target(r, t).update_targets, n), f)

\* every target in the update order of target id tracks at least one fact
AllTracked(id) ==
    LET ut == target(r, id).update_targets IN
    \A k \in 0..(ListLen(ut) - 1) :
        target(r, At(ut, k)).update_facts # NULL

\* a committed update by name of a target whose update order tracks facts
\* throughout is remembered until a fact changes or another request returns
Remembered ==
    IF req.op = "by_name" /\ txn = "committed" /\ ret > 0 /\ AllTracked(t)
    THEN [id |-> t, dirty |-> WroteBehind, ran |-> executed # << >>]
    ELSE NoLast

\* the request has returned to its caller; the engine is idle again
Return ==
    /\ pc = "returned"
    /\ ~ Nested
    /\ pc' = "idle"
    /\ txn' = "none"
    /\ ClearRequest
    /\ first' = FALSE
    /\ last' = Remembered
    /\ nest' = NoNest
    /\ UNCHANGED << r, fact, committed, errno, b, s, libs >>

\* another writer commits a change of fact f while the engine is idle
FactChanged(f) ==
    /\ pc = "idle"
    /\ fact[f] < MaxStamp
    /\ fact' = [fact EXCEPT ![f] = fact[f] + 1]
    /\ committed' = fact'
    /\ last' = NoLast
    /\ UNCHANGED << r, txn, errno, pc, t, i, status, needs_update, stamps,
                    ret, pre, executed, ncommit, nrollback, req, first, b,
                    s, rest >>

Next ==
    \/ \E name \in Names : update_target_by_name(name)
    \/ \E id \in 0..r.ntarget : update_target_by_id(id)
    \/ autoupdate_target
    \/ WalkEnd
    \/ WalkFresh
    \/ WalkExec
    \/ OwnExec
    \/ OwnSkip
    \/ ResolveFailed
    \/ ResolveCommit
    \/ Return
    \/ \E f \in Facts(r) : FactChanged(f)

Spec == Init /\ [][Next]_vars

(***************************************************************************)
(* The engine when update_target_by_id is also called with negative        *)
(* indexes.  Once update_target works on a record outside the array the    *)
(* outcome is undefined: the request may never return, or return any       *)
(* status with the transaction left open, committed or rolled back, and    *)
(* with stamps of the registry overwritten.                                *)
(***************************************************************************)
MaxOutside == 2

UndefinedOutcome ==
    /\ pc = "undefined"
    /\ pc' = "returned"
    /\ ret' \in ScriptStatus
    /\ txn' \in {"open", "committed", "rolledback"}
    /\ r' \in {r} \cup {update_target_stamps(r, [f \in Facts(r) |-> g], d) :
                         d \in TargetIds(r), g \in Garbage}
    /\ UNCHANGED << fact, committed, errno, t, i, status, needs_update,
                    stamps, pre, executed, ncommit, nrollback, req,
                    first, last, b, s, rest >>

NextAnyId ==
    \/ Next
    \/ \E id \in (0 - MaxOutside)..(0 - 1) : update_target_by_id(id)
    \/ UndefinedOutcome

SpecAnyId == Init /\ [][NextAnyId]_vars

(***************************************************************************)
(* Re-entry: nothing in update_target keeps a procedure from calling the   *)
(* engine again.  A procedure that is about to run (a stale dependency of  *)
(* the walk, or the subject's own) first issues an update by name; the     *)
(* request that was running is suspended in nest.frame until the inner     *)
(* request returns, and the procedure then goes on as in WalkExec/OwnExec. *)
(* One re-entry per request, one level deep.                               *)
(***************************************************************************)
ProcedureDue ==
    \/ /\ pc = "walk"
       /\ WalkDep >= 0 /\ WalkDep # t
       /\ older_than_facts(r, fact, WalkDep) \/ older_than_targets(r, WalkDep)
    \/ /\ pc = "own"
       /\ needs_update /\ status > 0

Frame ==
    [pc |-> pc, t |-> t, i |-> i, status |-> status,
     needs_update |-> needs_update, stamps |-> stamps, ret |-> ret,
     pre |-> pre, executed |-> executed, ncommit |-> ncommit,
     nrollback |-> nrollback, req |-> req]

\* lines 257-269 for the inner request, its transaction opened inside the
\* suspended request's
Reenter(name) ==
    /\ ProcedureDue
    /\ nest = NoNest
    /\ find_by_name(name) # NoTarget
    /\ nest' = [depth |-> 1, frame |-> Frame, savepoint |-> fact,
                inner |-> NoInner]
    /\ req' = [op |-> "by_name", name |-> name, id |-> NoTarget]
    /\ executed' = << >>
    /\ ncommit' = 0
    /\ nrollback' = 0
    /\ txn' = "open"
    /\ \E g \in Garbage :
        stamps' = save_target_stamps(r, find_by_name(name),
                                     [k \in BufSlots(r) |-> g])
    /\ status' = C_TRUE
    /\ needs_update' = older_than_facts(r, fact, find_by_name(name))
    /\ i' = 0
    /\ t' = find_by_name(name)
    /\ pre' = r.targets
    /\ pc' = "walk"
    /\ UNCHANGED << r, fact, committed, errno, ret, first, last, b, s, libs >>

\* the inner request returns into the procedure that issued it
InnerReturn ==
    /\ pc = "returned"
    /\ Nested
    /\ nest' = [NoNest EXCEPT
                  !.inner = [t         |-> t,
                             committed |-> txn = "committed",
                             targets   |-> r.targets]]
    /\ pc' = nest.frame.pc
    /\ t' = nest.frame.t
    /\ i' = nest.frame.i
    /\ status' = nest.frame.status
    /\ needs_update' = nest.frame.needs_update
    /\ stamps' = nest.frame.stamps
    /\ ret' = nest.frame.ret
    /\ pre' = nest.frame.pre
    /\ executed' = nest.frame.executed
    /\ ncommit' = nest.frame.ncommit
    /\ nrollback' = nest.frame.nrollback
    /\ req' = nest.frame.req
    /\ txn' = "open"
    /\ UNCHANGED << r, fact, committed, errno, first, last, b, s, libs >>

\* the requests are updates by name on the chain registry, where the update
\* orders of B and C share the targets A and B
ReentrantNames == {"B", "C"}

InitReentrant == /\ r = ChainRegistry /\ EngineStart /\ b = Built /\ s = Built

NextReentrant ==
    \/ \E name \in ReentrantNames : update_target_by_name(name)
    \/ \E name \in ReentrantNames : Reenter(name)
    \/ InnerReturn
    \/ WalkEnd
    \/ WalkFresh
    \/ WalkExec
    \/ OwnExec
    \/ OwnSkip
    \/ ResolveFailed
    \/ ResolveCommit
    \/ Return
    \/ \E f \in Facts(r) : FactChanged(f)

SpecReentrant == InitReentrant /\ [][NextReentrant]_vars

(***************************************************************************)
(* Properties of the update engine.                                        *)
(***************************************************************************)
\* the targets in the update order of target id, itself included
Closure(id) ==
    LET ut == target(r, id).update_targets IN
    {At(ut, k) : k \in 0..(ListLen(ut) - 1)}

\* the fact_stamps of every target in the subject's update order are what
\* they were when the request started
ClosureRestored ==
    \A id \in Closure(t) :
        target(r, id).fact_stamps = pre[id + 1].fact_stamps

\* the k-th executed procedure re-synced its target to stamps that differ
\* from the ones the target had when the request started
Resynced(k) ==
    LET e  == executed[k]
        tg == target(r, e.id)
    IN  /\ e.status > 0
        /\ tg.update_facts # NULL
        /\ \E n \in 0..(ListLen(tg.update_facts) - 1) :
              e.facts[At(tg.update_facts, n)] # At(pre[e.id + 1].fact_stamps, n)

LastExecuted == executed[Len(executed)]

\* commit_transaction was called and reported failure
CommitFailed == ncommit = 1 /\ txn = "rolledback"

\* C1: when a request returns after a procedure failed that followed one or
\* more successful dependency procedures, every target in the subject's
\* update order has the fact_stamps it had when the request started.
C1_RollbackRestoresExactly ==
    (/\ pc = "returned"
     /\ Len(executed) >= 2
     /\ executed[1].status > 0
     /\ LastExecuted.status <= 0)
    => ClosureRestored

C1_Witness ==
    /\ pc = "returned"
    /\ Len(executed) >= 2
    /\ Resynced(1)
    /\ LastExecuted.status <= 0
    /\ nrollback = 1

\* C2: whenever the engine is idle, no cached fact stamp of any target is
\* greater than the committed stamp of the fact it tracks.
C2_IdleStampsNotNewer ==
    pc \in {"idle", "returned"} =>
        \A id \in TargetIds(r) :
            LET tg == target(r, id) IN
            tg.update_facts # NULL =>
                \A k \in 0..(ListLen(tg.update_facts) - 1) :
                    At(tg.fact_stamps, k) <= committed[At(tg.update_facts, k)]

C2_Witness ==
    /\ pc = "returned"
    /\ CommitFailed
    /\ \E k \in 1..Len(executed) :
          /\ Resynced(k)
          /\ \E f \in Facts(r) : executed[k].facts[f] > committed[f]

\* C3: a request that opened a transaction has resolved it by exactly one
\* call of commit_transaction or rollback_transaction when it returns; the
\* transaction is open only while the request is in progress.
C3_TransactionResolved ==
    /\ pc \in {"walk", "own", "resolve"} =>
          txn = "open" /\ ncommit = 0 /\ nrollback = 0
    /\ pc = "returned" =>
          /\ txn \in {"none", "committed", "rolledback"}
          /\ txn = "none" => ncommit = 0 /\ nrollback = 0
          /\ txn = "committed" => ncommit = 1 /\ nrollback = 0
          /\ txn = "rolledback" => ncommit + nrollback = 1
    /\ pc = "idle" => txn = "none"

C3_Witness ==
    /\ pc = "returned"
    /\ txn = "rolledback"
    /\ nrollback = 1
    /\ Len(executed) >= 2

\* autoupdate_target was called with no auto-update target designated:
\* no update was requested of any target
AutoUpdateUnset == req.op = "autoupdate" /\ r.auto_update = NoTarget

C5_FailureStopsWalk ==
    /\ \A k \in 1..Len(executed) :
          executed[k].status <= 0 => k = Len(executed)
    /\ (/\ pc = "returned"
        /\ executed # << >>
        /\ LastExecuted.status <= 0
        /\ LastExecuted.id # t)
       => /\ nrollback = 1
          /\ ncommit = 0
          /\ ret = LastExecuted.status

C5_Witness ==
    /\ pc = "returned"
    /\ Len(executed) = 1
    /\ LastExecuted.status <= 0
    /\ LastExecuted.id # t
    /\ Cardinality(Closure(t)) >= 3
    /\ nrollback = 1

\* C6: when every executed procedure succeeded and commit_transaction
\* failed, the fact_stamps in the subject's update order are restored and
\* the request returns -errno, or -EINVAL when errno is 0.
C6_CommitFailureRestores ==
    (pc = "returned" /\ CommitFailed) =>
        /\ ClosureRestored
        /\ ret < 0
        /\ ret = IF errno # 0 THEN 0 - errno ELSE 0 - EINVAL

C6_Witness ==
    /\ pc = "returned"
    /\ CommitFailed
    /\ Len(executed) >= 2
    /\ Resynced(1)
    /\ errno = 0
    /\ ret = 0 - EINVAL

\* C7: when start_transaction fails, the request returns -errno, or -EINVAL
\* when errno is 0, no procedure has run, neither commit_transaction nor
\* rollback_transaction was called, and no target has changed.
C7_StartFailureNoEffect ==
    (pc = "returned" /\ t # NoTarget /\ txn = "none") =>
        /\ ret < 0
        /\ ret = IF errno # 0 THEN 0 - errno ELSE 0 - EINVAL
        /\ executed = << >>
        /\ ncommit = 0
        /\ nrollback = 0
        /\ r.targets = pre

C7_Witness ==
    /\ pc = "returned"
    /\ t # NoTarget
    /\ txn = "none"
    /\ errno = 0
    /\ ret = 0 - EINVAL
    /\ older_than_facts(r, fact, t)

\* the cached fact_stamps of the target of executed[k] are the stamps the
\* store reported when its procedure returned
StampsAsObserved(k) ==
    LET e  == executed[k]
        tg == target(r, e.id)
    IN  tg.update_facts # NULL =>
            \A n \in 0..(ListLen(tg.update_facts) - 1) :
                At(tg.fact_stamps, n) = e.facts[At(tg.update_facts, n)]

\* C8 as stated: after a request that returned a positive status, every
\* target whose procedure ran caches the stamps observed when its procedure
\* returned, and was not older than its facts at that moment.
C8_ExecutedNotOlder ==
    (pc = "returned" /\ ret > 0) =>
        \A k \in 1..Len(executed) :
            StampsAsObserved(k) /\ ~ executed[k].older

\* C8 amended: after a request that returned a positive status, every target
\* whose procedure ran caches the stamps observed when its procedure
\* returned, and, if it tracks facts, was not older than its facts at that
\* moment.
C8_ExecutedStampsObserved ==
    (pc = "returned" /\ ret > 0) =>
        \A k \in 1..Len(executed) :
            /\ StampsAsObserved(k)
            /\ target(r, executed[k].id).update_facts # NULL
                  => ~ executed[k].older

C8_Witness ==
    /\ pc = "returned"
    /\ ret > 0
    /\ Len(executed) >= 2
    /\ Resynced(1)
    /\ \E f \in Facts(r) : fact[f] > executed[1].facts[f]

\* C9: after a request that committed, the own stamp of every target whose
\* procedure succeeded in it is greater than before the request.
C9_OwnStampBumped ==
    (pc = "returned" /\ ret > 0 /\ txn = "committed") =>
        \A k \in 1..Len(executed) :
            target(r, executed[k].id).stamp > pre[executed[k].id + 1].stamp

\* the procedure of target id ran in this request
Ran(id) == \E k \in 1..Len(executed) : executed[k].id = id

\* C10: a target that tracks no fact is older than its facts in every
\* reachable state, whatever updates came before: a request for it always
\* needs an update, and a request that succeeds has run the procedure of
\* every such target in the subject's update order.
C10_DefaultStaleness ==
    /\ \A id \in TargetIds(r) :
          target(r, id).update_facts = NULL => older_than_facts(r, fact, id)
    /\ (pc \in {"walk", "own", "resolve"} /\ target(r, t).update_facts = NULL)
          => needs_update
    /\ (pc = "returned" /\ ret > 0 /\ t # NoTarget)
          => \A id \in Closure(t) :
                target(r, id).update_facts = NULL => Ran(id)

C10_Witness ==
    /\ pc = "returned"
    /\ ret > 0
    /\ executed # << >>
    /\ LastExecuted.id = t
    /\ target(r, t).update_facts = NULL
    /\ older_than_facts(r, fact, t)

\* the tracked facts of target id whose current stamp is above the cached one
Raised(id) ==
    LET tg == target(r, id) IN
    {k \in 0..(ListLen(tg.update_facts) - 1) :
        fact[At(tg.update_facts, k)] > At(tg.fact_stamps, k)}

\* every tracked fact of target id has exactly the cached stamp
AllCached(id) ==
    LET tg == target(r, id) IN
    \A k \in 0..(ListLen(tg.update_facts) - 1) :
        fact[At(tg.update_facts, k)] = At(tg.fact_stamps, k)

\* C11: for a target with fact dependencies, older_than_facts is FALSE when
\* every tracked fact has its cached stamp, and TRUE as soon as one tracked
\* fact has a stamp above its cached value.
C11_MonotonicStampCheck ==
    \A id \in TargetIds(r) :
        target(r, id).update_facts # NULL =>
            /\ AllCached(id) => ~ older_than_facts(r, fact, id)
            /\ Raised(id) # {} => older_than_facts(r, fact, id)

\* a target updated successfully before (its first cached stamp is above
\* 0 and still current) whose second tracked fact alone was raised since
C11_Witness ==
    /\ pc = "idle"
    /\ \E id \in TargetIds(r) :
          /\ target(r, id).update_facts # NULL
          /\ Raised(id) = {1}
          /\ At(target(r, id).fact_stamps, 0) > 0

\* C12 as stated: the first request for a target with fact dependencies,
\* which has never been updated, runs the target's procedure before it
\* commits, also when every tracked fact still has the initial cached stamp.
C12_FirstRequestRuns ==
    (/\ first
     /\ pc = "returned"
     /\ txn = "committed"
     /\ t # NoTarget
     /\ target(r, t).update_facts # NULL)
    => Ran(t)

\* when the request started, some tracked fact of the subject had a stamp
\* above the cached one (the store commits nothing while the request runs)
StaleAtStart ==
    LET uf == target(r, t).update_facts IN
    \E k \in 0..(ListLen(uf) - 1) :
        committed[At(uf, k)] > At(pre[t + 1].fact_stamps, k)

\* C12 amended: in the first request for a target with fact dependencies,
\* when no procedure failed, the target's procedure has run exactly when a
\* tracked fact's stamp was above the initial cached stamp or a dependency's
\* procedure ran, and its fact_stamps are then the stamps observed; with
\* every tracked stamp equal to the cached one and no dependency run, no
\* procedure runs and the committed request returns TRUE.
C12_FirstRequestRunsIfStale ==
    /\ (/\ first
        /\ pc = "resolve"
        /\ status > 0
        /\ target(r, t).update_facts # NULL)
       => /\ Ran(t) <=> (StaleAtStart \/ \E d \in Closure(t) \ {t} : Ran(d))
          /\ Ran(t) => StampsAsObserved(Len(executed))
    /\ (first /\ pc = "returned" /\ txn = "committed" /\ executed = << >>)
       => ret = C_TRUE

C12_Witness ==
    /\ first
    /\ pc = "returned"
    /\ txn = "committed"
    /\ t # NoTarget
    /\ target(r, t).update_facts # NULL
    /\ \A f \in Facts(r) : fact[f] = 0
    /\ target(r, t).fact_stamps = pre[t + 1].fact_stamps
    /\ ~ Ran(t)
    /\ ret = C_TRUE

\* this request repeats the remembered one: the same target, asked for by
\* name, with no fact changed in between
Repeated ==
    /\ last.id # NoTarget
    /\ req.op = "by_name"
    /\ t = last.id

\* no procedure has run, and a committed request has returned success
NoOpSuccess ==
    /\ executed = << >>
    /\ nrollback = 0
    /\ (pc = "returned" /\ txn = "committed") => ret > 0

\* C13 as stated: a request that repeats a successful update by name of a
\* target whose update order tracks facts throughout, with no fact changed
\* in between, executes no procedure and returns success once committed.
C13_RepeatIsNoOp == Repeated => NoOpSuccess

\* C13 amended: the same, provided no procedure of the first request wrote
\* a fact tracked by a target that precedes its own target in the update
\* order.
C13_CleanRepeatIsNoOp == (Repeated /\ ~ last.dirty) => NoOpSuccess

C13_Witness ==
    /\ pc = "returned"
    /\ Repeated
    /\ ~ last.dirty
    /\ last.ran
    /\ txn = "committed"
    /\ executed = << >>
    /\ ret = C_TRUE

\* how a returned request ended
UnknownTarget == t = NoTarget /\ ~ AutoUpdateUnset

StoreFailed == (t # NoTarget /\ txn = "none") \/ CommitFailed

ProcedureFailed == nrollback = 1

Failed == UnknownTarget \/ StoreFailed \/ ProcedureFailed

NoUpdateNeeded == AutoUpdateUnset \/ (txn = "committed" /\ executed = << >>)

UpdatePerformed == txn = "committed" /\ executed # << >>

\* C14 as stated: the returned status tells the three outcomes apart: every
\* failure returns a negative value, "no update was necessary" returns the
\* neutral success TRUE, and "update performed" returns a positive value
\* other than the neutral one.
C14_ThreeOutcomesApart ==
    pc = "returned" =>
        /\ Failed => ret < 0
        /\ NoUpdateNeeded => ret = C_TRUE
        /\ UpdatePerformed => ret > 0 /\ ret # C_TRUE

\* C14 amended: the returned status tells success (> 0) from failure (<= 0):
\* an unknown name or index returns FALSE, a failed procedure its status
\* (<= 0), a store failure a negative value; "no update was necessary"
\* returns TRUE and "update performed" the last procedure's status (> 0),
\* which may be TRUE as well.
C14_SuccessFromFailure ==
    pc = "returned" =>
        /\ UnknownTarget => ret = C_FALSE
        /\ StoreFailed => ret < 0
        /\ ProcedureFailed => ret = LastExecuted.status /\ ret <= 0
        /\ NoUpdateNeeded => ret = C_TRUE
        /\ UpdatePerformed => ret = LastExecuted.status /\ ret > 0
        /\ Failed \/ NoUpdateNeeded \/ UpdatePerformed

C14_Witness ==
    /\ pc = "returned"
    /\ UpdatePerformed
    /\ ret = C_TRUE

\* the request in progress has opened no transaction, executed no procedure
\* and left every target and every fact as it was
NoSideEffects ==
    /\ txn = "none"
    /\ executed = << >>
    /\ ncommit = 0
    /\ nrollback = 0
    /\ r.targets = pre
    /\ fact = committed

UnknownName ==
    /\ req.op = "by_name"
    /\ \A id \in TargetIds(r) : target(r, id).name # req.name

\* C15: update_target_by_name with a name that matches no target returns
\* FALSE, a status no successful request returns, and has no side effects:
\* no transaction is opened, no procedure is executed, no stamp changes.
C15_UnknownNameNoEffect ==
    UnknownName =>
        /\ pc = "returned"
        /\ t = NoTarget
        /\ ret = C_FALSE
        /\ ~ (ret > 0)
        /\ NoSideEffects

C15_Witness ==
    /\ UnknownName
    /\ pc = "returned"
    /\ req.name = "missing"
    /\ \E f \in Facts(r) : fact[f] > 0

\* C16: update_target_by_id with an index >= ntarget (ntarget itself, one
\* past the end, included) returns FALSE without opening a transaction,
\* executing a procedure or changing a stamp; with 0 <= index < ntarget the
\* request updates the target at that position: only procedures of targets
\* in its update order run and only their stamps change.
C16_IndexBoundsChecked ==
    req.op = "by_id" =>
        /\ req.id >= r.ntarget =>
              /\ pc = "returned"
              /\ t = NoTarget
              /\ ret = C_FALSE
              /\ NoSideEffects
        /\ (req.id >= 0 /\ req.id < r.ntarget) =>
              /\ t = req.id
              /\ \A k \in 1..Len(executed) : executed[k].id \in Closure(req.id)
              /\ \A d \in TargetIds(r) \ Closure(req.id) :
                    target(r, d) = pre[d + 1]

C16_Witness ==
    /\ req.op = "by_id"
    /\ req.id = r.ntarget
    /\ pc = "returned"
    /\ \E f \in Facts(r) : fact[f] > 0

\* C17: autoupdate_target on a registry with no auto-update target returns
\* TRUE without opening a transaction, executing a procedure or changing a
\* stamp.
C17_NoAutoUpdateTarget ==
    AutoUpdateUnset =>
        /\ pc = "returned"
        /\ t = NoTarget
        /\ ret = C_TRUE
        /\ NoSideEffects

C17_Witness ==
    /\ AutoUpdateUnset
    /\ pc = "returned"
    /\ \E id \in TargetIds(r) : older_than_facts(r, fact, id)

(***************************************************************************)
(* create_targets: the builder takes the parsed declarations over, one     *)
(* per iteration, and then resolves the auto-update target.  b is the      *)
(* builder's state: the parse tree, the registry under construction, the   *)
(* loop position lp and the local auto_update.  declared and failed are    *)
(* history: the declared names and the call that failed.                   *)
(***************************************************************************)
MaxDecls == 2

\* a NULL string
NoName == ""

DeclNames == {"A", "B"}

\* dependency names; a fact name starts with '$'
FactNames == {"$f", "$g"}

IsFactName(d) == d \in FactNames

DeclDepends == { << >>, << "$f" >>, << "A", "$g" >> }

DependIndexes == UNION {DOMAIN d : d \in DeclDepends}

ScriptSources == {NoName, "src"}

Decl(name, script_source, depends) ==
    [name |-> name, script_source |-> script_source, depends |-> depends]

Decls ==
    {Decl(n, src, d) : n \in DeclNames, src \in ScriptSources,
                       d \in DeclDepends}

DeclLists == UNION {[1..n -> Decls] : n \in 0..MaxDecls}

\* the builder on entry: lines 23-25; the caller hands over a registry it
\* allocated zeroed, so r->auto_update starts unset
Parsed(decls, auto) ==
    [pc            |-> "loop",
     parser        |-> [targets |-> decls, auto_update |-> auto],
     declared      |-> [k \in 1..Len(decls) |-> decls[k].name],
     parsed        |-> decls,
     freed         |-> << >>,
     destroyed     |-> {},
     lp            |-> 1,
     ntarget       |-> 0,
     targets       |-> << >>,
     facts         |-> {},
     auto_update   |-> SENTINEL,
     r_auto_update |-> NoTarget,
     ret           |-> 0,
     errno         |-> 0,
     failed        |-> "none"]

InitBuild ==
    /\ EngineInit
    /\ r = ChainRegistry
    /\ b \in {Parsed(decls, auto) : decls \in DeclLists,
                                    auto \in DeclNames \cup {NoName}}
    /\ s = Built

taken_name_copied(bb) ==
    LET pt == bb.parser.targets[bb.lp] IN
    [bb EXCEPT !.ntarget = @ + 1,
               !.targets = Append(@, [name    |-> pt.name,
                                      depends |-> pt.depends,
                                      script  |-> NoName]),
               !.parser.targets[bb.lp].depends = << >>]

\* lines 31-40: the declaration at lp becomes target ntarget; its name and
\* dependency list move from the parse tree to the target
taken(bb) ==
    LET pt == bb.parser.targets[bb.lp] IN
    [bb EXCEPT !.ntarget = @ + 1,
               !.targets = Append(@, [name    |-> pt.name,
                                      depends |-> pt.depends,
                                      script  |-> NoName]),
               !.parser.targets[bb.lp].name = NoName,
               !.parser.targets[bb.lp].depends = << >>]

\* create_fact for the fact names among the first n dependencies
facts_created(bb, depends, n) ==
    bb.facts \cup {depends[k] : k \in {j \in 1..n : IsFactName(depends[j])}}

InLoop == b.pc = "loop" /\ b.lp <= Len(b.parser.targets)

\* lines 28-30: mrp_reallocz fails
create_targets_alloc_failed ==
    /\ InLoop
    /\ b' = [b EXCEPT !.pc = "done", !.ret = 0 - 1, !.failed = "alloc"]
    /\ UNCHANGED << engine, s, rest >>

\* lines 42-54: mrp_create_script fails and leaves e in errno
create_targets_script_failed(e) ==
    /\ InLoop
    /\ b.parser.targets[b.lp].script_source # NoName
    /\ b' = [taken(b) EXCEPT !.pc = "done", !.ret = 0 - 1, !.errno = e,
                             !.failed = "script"]
    /\ UNCHANGED << engine, s, rest >>

\* lines 57-61: create_fact fails on dependency k
create_targets_fact_failed(k) ==
    /\ InLoop
    /\ k \in 1..Len(b.parser.targets[b.lp].depends)
    /\ IsFactName(b.parser.targets[b.lp].depends[k])
    /\ LET pt == b.parser.targets[b.lp] IN
       b' = [taken(b) EXCEPT
                !.targets[b.ntarget + 1].script = pt.script_source,
                !.facts = facts_created(b, pt.depends, k - 1),
                !.pc = "done", !.ret = 0 - 1, !.failed = "fact"]
    /\ UNCHANGED << engine, s, rest >>

\* lines 27-67: one iteration without a failure
create_targets_iterate ==
    /\ InLoop
    /\ LET pt == b.parser.targets[b.lp] IN
       b' = [taken(b) EXCEPT
                !.targets[b.ntarget + 1].script = pt.script_source,
                !.facts = facts_created(b, pt.depends, Len(pt.depends)),
                !.auto_update =
                    IF /\ b.parser.auto_update # NoName
                       /\ b.parser.auto_update = pt.name
                    THEN b.ntarget
                    ELSE @,
                !.lp = @ + 1]
    /\ UNCHANGED << engine, s, rest >>

resolve_auto_update_lenient(bb) ==
    IF bb.auto_update >= 0
    THEN [bb EXCEPT !.pc = "done", !.r_auto_update = bb.auto_update,
                    !.ret = 0]
    ELSE [bb EXCEPT !.pc = "done", !.ret = 0]

\* lines 69-81
resolve_auto_update(bb) ==
    IF bb.auto_update >= 0
    THEN [bb EXCEPT !.pc = "done", !.r_auto_update = bb.auto_update,
                    !.ret = 0]
    ELSE IF bb.parser.auto_update # NoName
         THEN [bb EXCEPT !.pc = "done", !.errno = ENOENT, !.ret = 0 - 1]
         ELSE [bb EXCEPT !.pc = "done", !.ret = 0]

create_targets_resolve ==
    /\ b.pc = "loop"
    /\ b.lp > Len(b.parser.targets)
    /\ b' = resolve_auto_update(b)
    /\ UNCHANGED << engine, s, rest >>

\* the strings a holder of the records recs frees: the name and the
\* dependency list of record k, when it holds them
frees(recs, n) ==
    LET held(k) == (IF recs[k].name # NoName
                    THEN << << "name", k >> >> ELSE << >>)
                   \o (IF recs[k].depends # << >>
                       THEN << << "depends", k >> >> ELSE << >>)
        upto[k \in 0..n] == IF k = 0 THEN << >> ELSE upto[k - 1] \o held(k)
    IN  upto[n]

\* lines 85-104: free what the ntarget target records hold
destroy_targets ==
    /\ b.pc \in {"done", "teardown"}
    /\ "targets" \notin b.destroyed
    /\ b' = [b EXCEPT !.pc = "teardown",
                      !.freed = @ \o frees(b.targets, b.ntarget),
                      !.destroyed = @ \cup {"targets"}]
    /\ UNCHANGED << engine, s, rest >>

\* the parser frees what the declarations of the parse tree still hold
parser_destroy ==
    /\ b.pc \in {"done", "teardown"}
    /\ "parser" \notin b.destroyed
    /\ b' = [b EXCEPT !.pc = "teardown",
                      !.freed = @ \o frees(b.parser.targets,
                                           Len(b.parser.targets)),
                      !.destroyed = @ \cup {"parser"}]
    /\ UNCHANGED << engine, s, rest >>

NextBuild ==
    \/ create_targets_alloc_failed
    \/ \E e \in ErrnoValues : create_targets_script_failed(e)
    \/ \E k \in DependIndexes : create_targets_fact_failed(k)
    \/ create_targets_iterate
    \/ create_targets_resolve
    \/ destroy_targets
    \/ parser_destroy

SpecBuild == InitBuild /\ [][NextBuild]_vars

Designated == b.parser.auto_update # NoName

Declared(name) == \E k \in 1..Len(b.declared) : b.declared[k] = name

\* C18 as stated: create_targets fails, with errno ENOENT, iff an
\* auto-update name was designated and no declared target has it; when it
\* succeeds with a designated name, auto_update is a target of that name;
\* when no name was designated the build succeeds with auto_update unset.
C18_FailsIffUnmatched ==
    b.pc = "done" =>
        /\ b.ret < 0 <=> (Designated /\ ~ Declared(b.parser.auto_update))
        /\ b.ret < 0 => b.errno = ENOENT
        /\ (b.ret = 0 /\ Designated) =>
              /\ b.r_auto_update # NoTarget
              /\ b.targets[b.r_auto_update + 1].name = b.parser.auto_update
        /\ ~ Designated => b.ret = 0 /\ b.r_auto_update = NoTarget

\* C18 amended: create_targets fails iff an allocation, a script creation
\* or a fact creation fails while the declarations are taken over, or an
\* auto-update name was designated and no declared target has it; in the
\* latter case errno is ENOENT.  When it succeeds with a designated name,
\* auto_update is the last declared target of that name; when it succeeds
\* with no name designated, or fails, auto_update is left unset.
C18_UnmatchedNameFails ==
    b.pc = "done" =>
        /\ b.ret \in {0, 0 - 1}
        /\ b.ret < 0 <=> \/ b.failed # "none"
                         \/ Designated /\ ~ Declared(b.parser.auto_update)
        /\ (b.ret < 0 /\ b.failed = "none") => b.errno = ENOENT
        /\ (b.ret = 0 /\ Designated) =>
              /\ b.r_auto_update \in 0..(b.ntarget - 1)
              /\ b.targets[b.r_auto_update + 1].name = b.parser.auto_update
              /\ \A k \in (b.r_auto_update + 2)..b.ntarget :
                    b.targets[k].name # b.parser.auto_update
        /\ (b.ret < 0 \/ ~ Designated) => b.r_auto_update = NoTarget

C18_Witness ==
    /\ b.pc = "done"
    /\ b.failed = "none"
    /\ Designated
    /\ ~ Declared(b.parser.auto_update)
    /\ Len(b.declared) = MaxDecls
    /\ b.ret < 0

(***************************************************************************)
(* sort_targets: the topological linearization that fills update_targets  *)
(* of every target, one target after the other, and rejects cycles.  For   *)
(* the target subj it takes the graph of subj and its transitive target    *)
(* dependencies, with an edge << d, u >> when u depends on d, and          *)
(* linearizes it: Q queues the targets with no edge left to them, L is the *)
(* order so far, E the edges not yet removed.  Edges left when Q runs      *)
(* empty are a cycle.                                                      *)
(***************************************************************************)
NSort == 3

SortIds == 0..(NSort - 1)

\* the declared target dependencies: depends[u] are the targets u names
Graphs == [SortIds -> SUBSET SortIds]

RECURSIVE Grow(_, _, _)
Grow(depends, S, k) ==
    IF k = 0
    THEN S
    ELSE Grow(depends, S \cup UNION {depends[x] : x \in S}, k - 1)

\* the transitive target dependencies of u
TransDeps(depends, u) == Grow(depends, depends[u], NSort)

Cyclic(depends) == \E u \in SortIds : u \in TransDeps(depends, u)

RECURSIVE Ascending(_)
Ascending(S) ==
    IF S = {}
    THEN << >>
    ELSE LET m == CHOOSE x \in S : \A y \in S : x <= y
         IN  << m >> \o Ascending(S \ {m})

\* the graph of target u: its nodes, its edges, and the queue of the nodes
\* that depend on nothing
graph_of(ss, u) ==
    LET nodes == TransDeps(ss.depends, u) \cup {u} IN
    [ss EXCEPT
        !.subj = u,
        !.E = {e \in nodes \X nodes : e[1] \in ss.depends[e[2]]},
        !.Q = Ascending({x \in nodes : ss.depends[x] = {}}),
        !.L = << >>]

Unsorted(depends) ==
    graph_of([pc             |-> "sort",
              depends        |-> depends,
              subj           |-> 0,
              E              |-> {},
              Q              |-> << >>,
              L              |-> << >>,
              update_targets |-> [u \in SortIds |-> NULL]], 0)

InitSort ==
    /\ EngineInit
    /\ r = ChainRegistry
    /\ b = Built
    /\ s \in {Unsorted(depends) : depends \in Graphs}

\* the targets that have no edge left to them once the edges from n are
\* removed
freed(ss, n) ==
    {m \in SortIds :
        /\ << n, m >> \in ss.E
        /\ \A e \in ss.E : e[2] = m => e[1] = n}

sort_pop_any_edge(ss) ==
    LET n == Head(ss.Q) IN
    [ss EXCEPT !.L = Append(@, n),
               !.E = {e \in @ : e[1] # n},
               !.Q = Tail(@) \o Ascending({m \in SortIds : << n, m >> \in ss.E})]

\* take the head of Q, append it to L, remove its edges
sort_pop(ss) ==
    LET n == Head(ss.Q) IN
    [ss EXCEPT !.L = Append(@, n),
               !.E = {e \in @ : e[1] # n},
               !.Q = Tail(@) \o Ascending(freed(ss, n))]

sort_targets_pop ==
    /\ s.pc = "sort"
    /\ s.Q # << >>
    /\ s' = sort_pop(s)
    /\ UNCHANGED << engine, b, rest >>

sort_targets_sorted_unchecked ==
    /\ s.pc = "sort"
    /\ s.Q = << >>
    /\ LET done == [s EXCEPT
                       !.update_targets[s.subj] = s.L \o << SENTINEL >>]
       IN  s' = IF s.subj + 1 < NSort
                THEN graph_of(done, s.subj + 1)
                ELSE [done EXCEPT !.pc = "done"]
    /\ UNCHANGED << engine, b, rest >>

\* Q is empty and no edge is left: L is the update order of subj
sort_targets_sorted ==
    /\ s.pc = "sort"
    /\ s.Q = << >>
    /\ s.E = {}
    /\ LET done == [s EXCEPT
                       !.update_targets[s.subj] = s.L \o << SENTINEL >>]
       IN  s' = IF s.subj + 1 < NSort
                THEN graph_of(done, s.subj + 1)
                ELSE [done EXCEPT !.pc = "done"]
    /\ UNCHANGED << engine, b, rest >>

\* Q is empty and edges are left: a cycle, the construction fails
sort_targets_cycle ==
    /\ s.pc = "sort"
    /\ s.Q = << >>
    /\ s.E # {}
    /\ s' = [s EXCEPT !.pc = "failed"]
    /\ UNCHANGED << engine, b, rest >>

NextSort ==
    \/ sort_targets_pop
    \/ sort_targets_sorted
    \/ sort_targets_cycle

SpecSort == InitSort /\ [][NextSort]_vars

\* the sorter runs to completion once started
SpecSortFair == SpecSort /\ WF_vars(NextSort)

\* the update order ut of target u lists u's transitive dependencies and u,
\* each once, dependencies first, u last, then the sentinel
TopologicalOrder(depends, u, ut) ==
    LET n == ListLen(ut) IN
    /\ Len(ut) = n + 1
    /\ {At(ut, k) : k \in 0..(n - 1)} = TransDeps(depends, u) \cup {u}
    /\ n = Cardinality(TransDeps(depends, u) \cup {u})
    /\ \A j, k \in 0..(n - 1) :
          j < k => At(ut, k) \notin TransDeps(depends, At(ut, j))
    /\ At(ut, n - 1) = u

\* C19: for an acyclic declared graph the sort succeeds, and update_targets
\* of every target lists each of its transitive target dependencies exactly
\* once, no target before a target it depends on, the target itself last
\* before the sentinel.
C19_TopologicalSafety ==
    (s.pc # "off" /\ ~ Cyclic(s.depends)) =>
        /\ s.pc # "failed"
        /\ \A u \in SortIds :
              IF u < s.subj \/ s.pc = "done"
              THEN TopologicalOrder(s.depends, u, s.update_targets[u])
              ELSE s.update_targets[u] = NULL

C19_Witness ==
    /\ s.pc = "done"
    /\ ~ Cyclic(s.depends)
    /\ \E u, v \in SortIds :
          /\ u # v
          /\ s.depends[u] = {}
          /\ s.depends[v] = SortIds \ {v}
          /\ Len(s.update_targets[v]) = NSort + 1

\* C20: sorting a graph with a dependency cycle terminates and fails; the
\* sorter never reports such a graph as sorted, so no registry is built
\* from it.
C20_CycleRejected ==
    /\ [](s.pc = "done" => ~ Cyclic(s.depends))
    /\ [](Cyclic(s.depends) => <>(s.pc = "failed"))
    /\ [](s.pc = "failed" => [](s.pc = "failed"))

C20_Witness ==
    /\ s.pc = "failed"
    /\ Cyclic(s.depends)
    /\ s.subj > 0
    /\ \A u \in SortIds : u \notin s.depends[u]

\* the parse tree, resp. a target record counted in ntarget, holds the name
\* (the dependency list) of declaration k
Holds(rec, field) ==
    IF field = "name" THEN rec.name # NoName ELSE rec.depends # << >>

ParserHolds(k, field) == Holds(b.parser.targets[k], field)

TargetHolds(k, field) == k <= b.ntarget /\ Holds(b.targets[k], field)

\* the strings of the declarations as parsed
Strings ==
    {<< "name", k >> : k \in 1..Len(b.parsed)}
    \cup {<< "depends", k >> : k \in {j \in 1..Len(b.parsed) :
                                         b.parsed[j].depends # << >>}}

TimesFreed(x) == Cardinality({j \in 1..Len(b.freed) : b.freed[j] = x})

\* C21: when create_targets has returned, with success or any failure, the
\* name and the dependency list of every declaration are held by exactly
\* one of the parse tree and a target counted in ntarget; destroying both
\* then frees every string exactly once.
C21_ConsumingTransform ==
    /\ b.pc = "done" =>
          \A x \in Strings : ParserHolds(x[2], x[1]) # TargetHolds(x[2], x[1])
    /\ b.pc = "teardown" =>
          /\ \A x \in Strings : TimesFreed(x) <= 1
          /\ b.destroyed = {"targets", "parser"} =>
                \A x \in Strings : TimesFreed(x) = 1

C21_Witness ==
    /\ b.pc = "teardown"
    /\ b.destroyed = {"targets", "parser"}
    /\ b.failed = "script"
    /\ b.ntarget = 1
    /\ Len(b.parsed) = 2
    /\ \A k \in 1..2 : b.parsed[k].depends # << >>

\* what of the registry is fixed once it is built: everything but the
\* fact_stamps and the stamp of each target
Structure(rr) ==
    [ntarget     |-> rr.ntarget,
     nfact       |-> rr.nfact,
     auto_update |-> rr.auto_update,
     targets     |-> [k \in DOMAIN rr.targets |->
                        [name           |-> rr.targets[k].name,
                         update_facts   |-> rr.targets[k].update_facts,
                         update_targets |-> rr.targets[k].update_targets,
                         nstamps        |-> Len(rr.targets[k].fact_stamps)]]]

\* C22: no step of an update request, succeeding or failing, changes
\* ntarget, a target's name, update_facts or update_targets, or the
\* auto_update designation; only fact_stamps (and stamp) may change.
C22_StructureIntact == [][Structure(r)' = Structure(r)]_vars

C22_Witness ==
    /\ pc = "returned"
    /\ req.op = "autoupdate"
    /\ txn = "committed"
    /\ Structure(r) = Structure(ChainRegistry)
    /\ r.targets # pre
    /\ \E id \in TargetIds(r) : r.targets[id + 1] # ChainRegistry.targets[id + 1]

\* the subject was older than its facts when the request started (the
\* transaction is still open: committed is the store at the start)
OlderAtStart ==
    older_than_facts([r EXCEPT !.targets = pre], committed, t)

\* positions in executed of the subject's own procedure, of the
\* dependencies' procedures
OwnRuns == {k \in 1..Len(executed) : executed[k].id = t}

DepRuns == {k \in 1..Len(executed) : executed[k].id # t}

DepFailed == \E k \in DepRuns : executed[k].status <= 0

\* C23: once the walk and the own step of a request are over, the subject's
\* own procedure has run exactly when no dependency procedure failed and
\* needs_update is true, that is, when the subject was older than its facts
\* at the start or a dependency was executed; it has run at most once and
\* after every executed dependency; a request whose transaction was not
\* opened has run nothing.
C23_OwnProcedureWhenNeeded ==
    /\ pc = "resolve" =>
          /\ txn = "open"
          /\ needs_update <=> (OlderAtStart \/ DepRuns # {})
          /\ OwnRuns # {} <=> (needs_update /\ ~ DepFailed)
          /\ Cardinality(OwnRuns) <= 1
          /\ \A k \in OwnRuns : \A j \in DepRuns : j < k
    /\ (pc = "returned" /\ txn = "none") => executed = << >>

C23_Witness ==
    /\ pc = "resolve"
    /\ ~ OlderAtStart
    /\ DepRuns # {}
    /\ ~ DepFailed
    /\ OwnRuns # {}

\* C24: the procedures of one request run in update_targets order, each
\* target at most once: of two executed targets the one the other depends
\* on (transitively) ran first, and the subject's own procedure ran last.
C24_ExecutedInUpdateOrder ==
    executed # << >> =>
        /\ \A k \in 1..Len(executed) : executed[k].id \in Closure(t)
        /\ \A j, k \in 1..Len(executed) :
              j < k =>
                 /\ Pos(t, executed[j].id) < Pos(t, executed[k].id)
                 /\ executed[k].id \notin Closure(executed[j].id)
        /\ Ran(t) => LastExecuted.id = t

C24_Witness ==
    /\ Len(executed) = 3
    /\ executed[1].id \in Closure(executed[2].id)
    /\ executed[2].id \in Closure(executed[3].id)
    /\ executed[3].id = t

\* the fact_stamps of target id are not what they were when the request
\* started
StampsChanged(id) == target(r, id).fact_stamps # pre[id + 1].fact_stamps

RanWell(id) ==
    \E k \in 1..Len(executed) : executed[k].id = id /\ executed[k].status > 0

\* C25: when a request has returned, the fact_stamps of a target differ
\* from those it had before the request only if that target's procedure
\* ran with status > 0 in the request and the request committed: fresh
\* dependencies, targets outside the update order and every target of a
\* failed request keep their fact_stamps.
C25_StampsChangeOnlyOnSuccess ==
    pc = "returned" =>
        \A id \in TargetIds(r) :
            StampsChanged(id) => (RanWell(id) /\ txn = "committed")

C25_Witness ==
    /\ pc = "returned"
    /\ txn = "rolledback"
    /\ \E id \in TargetIds(r) :
          /\ RanWell(id)
          /\ ~ StampsChanged(id)
          /\ \E k \in 1..Len(executed) :
                /\ executed[k].id = id
                /\ executed[k].wrote # {}
                /\ ~ executed[k].older

\* C26: after a request that committed a successful update of target e,
\* every other target d that has e in its update order and was not itself
\* updated in the request is older than its targets (the stamp of e is
\* above the stamp of d), so that a later walk reaching d executes it.
C26_StalenessPropagates ==
    (pc = "returned" /\ txn = "committed") =>
        \A e, d \in TargetIds(r) :
            (/\ RanWell(e)
             /\ e \in Closure(d)
             /\ e # d
             /\ ~ Ran(d))
            => older_than_targets(r, d)

\* C27: a committed request returns the status of the last procedure it
\* executed, and that procedure is the subject's own whenever a procedure
\* ran; when nothing ran it returns TRUE.
C27_CommittedReturnsLastStatus ==
    (pc = "returned" /\ txn = "committed") =>
        IF executed # << >>
        THEN /\ LastExecuted.id = t
             /\ ret = LastExecuted.status
             /\ \A k \in 1..Len(executed) : executed[k].status > 0
        ELSE ret = C_TRUE

C27_Witness ==
    /\ pc = "returned"
    /\ txn = "committed"
    /\ Len(executed) = 2
    /\ executed[1].status # executed[2].status
    /\ ret = C_TRUE + 1

\* the k-th executed procedure was a dependency's and raised a fact that
\* the dependency d, later in the subject's update order, tracks
RaisedForLater(k, d) ==
    /\ executed[k].id # t
    /\ d \in Closure(t) \ {t}
    /\ Pos(t, executed[k].id) < Pos(t, d)
    /\ \E f \in executed[k].wrote : Tracks(d, f)

WalkOver == pc \in {"own", "resolve", "returned"}

MaxSnapTargets == 2

MaxSnapFacts == 2

\* the duplicate-free lists of 1..n facts out of 0..n-1, with their sentinel
FactLists(n) ==
    {q \o << SENTINEL >> :
        q \in {l \in UNION {[1..m -> 0..(n - 1)] : m \in 1..n} :
                  \A j, k \in DOMAIN l : j # k => l[j] # l[k]}}

SnapTarget(k, facts, order) ==
    [name           |-> "",
     update_facts   |-> facts,
     update_targets |-> order,
     fact_stamps    |-> IF facts = NULL THEN NULL
                        ELSE [j \in 1..(Len(facts) - 1) |->
                                (2 * k + j) % (MaxStamp + 1)],
     stamp          |-> 0]

SnapRegistries ==
    UNION {
      {[targets     |-> [k \in 1..nt |->
                           SnapTarget(k - 1, uf[k],
                                      [j \in 1..k |-> j - 1]
                                      \o << SENTINEL >>)],
        ntarget     |-> nt,
        nfact       |-> nf,
        auto_update |-> SENTINEL] :
          uf \in [1..nt -> FactLists(nf) \cup {NULL}]} :
      nt \in 1..MaxSnapTargets, nf \in 0..MaxSnapFacts}

InitSnapshot ==
    /\ r \in SnapRegistries
    /\ EngineStart
    /\ b = Built
    /\ s = Built

\* line 266 on the uninitialized buffer of line 254
snapshot_save(id) ==
    /\ pc = "idle"
    /\ \E g \in Garbage :
        stamps' = save_target_stamps(r, id, [k \in BufSlots(r) |-> g])
    /\ pre' = r.targets
    /\ t' = id
    /\ pc' = "saved"
    /\ UNCHANGED << r, fact, committed, txn, errno, i, status, needs_update,
                    ret, executed, ncommit, nrollback, req, first, last,
                    b, s, rest >>

\* lines 284, 293: update_target_stamps on a saved target, with the stamps
\* fs in the store
snapshot_update(id, fs) ==
    /\ pc = "saved"
    /\ id \in Closure(t)
    /\ r' = update_target_stamps(r, fs, id)
    /\ r' # r
    /\ UNCHANGED << fact, committed, txn, errno, pc, t, i, status,
                    needs_update, stamps, ret, pre, executed, ncommit,
                    nrollback, req, first, last, b, s, rest >>

\* lines 298, 302
snapshot_restore ==
    /\ pc = "saved"
    /\ r' = restore_target_stamps(r, t, stamps)
    /\ pc' = "restored"
    /\ UNCHANGED << fact, committed, txn, errno, t, i, status, needs_update,
                    stamps, ret, pre, executed, ncommit, nrollback, req,
                    first, last, b, s, rest >>

NextSnapshot ==
    \/ \E id \in TargetIds(r) : snapshot_save(id)
    \/ \E id \in TargetIds(r) : \E g \in Garbage :
          snapshot_update(id, [f \in Facts(r) |-> g])
    \/ snapshot_restore

SpecSnapshot == InitSnapshot /\ [][NextSnapshot]_vars

\* the slots of the buffer that belong to target id
SliceOf(id) ==
    LET uf == target(r, id).update_facts IN
    IF uf = NULL
    THEN {}
    ELSE {id * r.nfact + k : k \in 0..(ListLen(uf) - 1)}

\* C29: the slice of target id starts at id * nfact and has one slot per
\* entry of its update_facts; slices of distinct targets do not overlap
\* and stay inside the ntarget * nfact slots; after save every slot of a
\* saved target holds the stamp the target had, and restore gives every
\* saved target exactly the fact_stamps it had at save.
C29_SlicesDisjointInBuffer ==
    /\ \A id \in TargetIds(r) : SliceOf(id) \subseteq BufSlots(r)
    /\ \A id, d \in TargetIds(r) : id # d => SliceOf(id) \cap SliceOf(d) = {}
    /\ pc = "saved" =>
          \A id \in Closure(t) :
              \A k \in 0..(Cardinality(SliceOf(id)) - 1) :
                  stamps[id * r.nfact + k] = At(pre[id + 1].fact_stamps, k)
    /\ pc = "restored" =>
          \A id \in TargetIds(r) :
              target(r, id).fact_stamps = pre[id + 1].fact_stamps

C29_Witness ==
    /\ pc = "restored"
    /\ r.ntarget = MaxSnapTargets
    /\ t = r.ntarget - 1
    /\ \A id \in TargetIds(r) : Cardinality(SliceOf(id)) = r.nfact
    /\ r.nfact = MaxSnapFacts
    /\ \E k \in BufSlots(r) : stamps[k] # 0

\* C30: update_target_by_id with an index that is not in 0..ntarget-1,
\* negative indexes included, returns without opening a transaction,
\* without working on a record outside the array and without touching any
\* target.
C30_IdOutsideArrayRejected ==
    (req.op = "by_id" /\ req.id \notin TargetIds(r)) =>
        /\ pc = "returned"
        /\ txn = "none"
        /\ executed = << >>
        /\ r.targets = pre

(***************************************************************************)
(* The engine on a registry built from two declarations of the same name.  *)
(* create_targets accepts them (it compares names only with the            *)
(* auto-update name) and resolves auto_update to the last one, lines       *)
(* 64-71.  The second T depends on the first; they track facts 0 and 1.    *)
(***************************************************************************)
TwinRegistry ==
    [targets |-> << Target("T", <<0, SENTINEL>>, <<0, SENTINEL>>),
                    Target("T", <<1, SENTINEL>>, <<0, 1, SENTINEL>>) >>,
     ntarget     |-> 2,
     nfact       |-> 2,
     auto_update |-> 1]

InitTwin ==
    /\ r = TwinRegistry
    /\ EngineStart
    /\ b = Built
    /\ s = Built

NextTwin ==
    \/ \E name \in {"T", "missing"} : update_target_by_name(name)
    \/ Next

SpecTwin == InitTwin /\ [][NextTwin]_vars

\* C31: when an auto-update target is designated, the record a request of
\* autoupdate_target works on is the record auto_update refers to, also
\* when several targets carry its name.
C31_AutoUpdatesResolvedRecord ==
    (req.op = "autoupdate" /\ r.auto_update # NoTarget /\ pc # "idle") =>
        t = r.auto_update

\* the request that ran inside the current one committed, and its
\* fact_stamps for target id were not those id had before both requests
InnerAdvanced(id) ==
    /\ nest.inner.t # NoTarget
    /\ nest.inner.committed
    /\ nest.inner.targets[id + 1].fact_stamps # pre[id + 1].fact_stamps

\* C32: when a request that was re-entered rolls back, its restore gives
\* every target of its update order the fact_stamps saved when it started,
\* whatever the inner request advanced and committed in between: a target
\* both requests cover loses the stamps the inner request committed, which
\* no serial order of the two requests does.
C32_RestoreOverwritesInner ==
    (/\ pc = "returned"
     /\ ~ Nested
     /\ nest.inner.t # NoTarget
     /\ txn = "rolledback")
    => \A id \in Closure(t) :
          target(r, id).fact_stamps = pre[id + 1].fact_stamps

C32_Witness ==
    /\ pc = "returned"
    /\ ~ Nested
    /\ txn = "rolledback"
    /\ nrollback = 1
    /\ nest.inner.t # NoTarget
    /\ \E id \in Closure(t) \cap Closure(nest.inner.t) :
          /\ InnerAdvanced(id)
          /\ target(r, id).fact_stamps # nest.inner.targets[id + 1].fact_stamps

(***************************************************************************)
(* The websocket library: a context with its one pending connection, the   *)
(* sockets the upper layer accepted, and the event handlers wsl_event and  *)
(* http_event.  A handler is on the stack from the event until it returns; *)
(* it stops where it calls the upper layer, which then calls               *)
(* wsl_accept_pending, wsl_reject_pending or wsl_close, or lets the        *)
(* mainloop deliver a further event, before it returns.  The upper layer   *)
(* answers a connection inside its connection callback and closes only     *)
(* sockets it was given and that are not freed.                            *)
(***************************************************************************)
\* libwebsocket instances, handlers on the stack at once (above one, events
\* are delivered inside a callback), complete messages in one reception
MaxWs    == 2
MaxDepth == 1
MaxMsgs  == 2
\* sessions closed by the error path, per socket, before the model stops
\* failing pushes on it
MaxCloses == 1

LWS_EVENT_OK   == 0
LWS_EVENT_DENY == 1

\* the libwebsocket instances; NoWs is the NULL instance
WsIds == 1..MaxWs
NoWs  == 0

\* no wsl_sck_t allocated for the instance yet
NoSck ==
    [state |-> "none", busy |-> 0, closing |-> FALSE, sck |-> FALSE,
     pure_http |-> FALSE, gone |-> FALSE]

NoEvent ==
    [ev |-> "none", ws |-> NoWs, status |-> LWS_EVENT_OK, offered |-> FALSE,
     answer |-> "none", connection |-> FALSE, pending |-> NoWs]

InitWsl ==
    /\ ResolverIdle
    /\ poll = Built /\ cnd = Built /\ zone = Built
    /\ \E h \in BOOLEAN :
        wsl = [pending      |-> NoWs,
               pending_http |-> FALSE,
               has_http     |-> h,
               sck          |-> [id \in WsIds |-> NoSck],
               closes       |-> [id \in WsIds |-> 0],
               frees        |-> [id \in WsIds |-> 0],
               seen         |-> [id \in WsIds |-> FALSE],
               stack        |-> << >>,
               last         |-> NoEvent]

WslUnchanged == UNCHANGED << engine, b, s, nest, poll, cnd, zone >>

\* the handler that is running, and the stack without it
Top(c)   == c.stack[Len(c.stack)]
Below(c) == SubSeq(c.stack, 1, Len(c.stack) - 1)

Handler(ev, id, at, more, connection) ==
    [ev |-> ev, ws |-> id, pc |-> at, more |-> more, answer |-> "none",
     connection |-> connection, pending |-> wsl.pending]

Push(c, f)  == [c EXCEPT !.stack = Append(@, f)]
Pop(c)      == [c EXCEPT !.stack = Below(c)]
MoveTop(c, f) == [c EXCEPT !.stack = Append(Below(c), f)]

\* the handler returns status to libwebsockets; pending: ctx->pending as the
\* event found it
Returns(c, ev, id, st, offered, answer, connection, pending) ==
    [c EXCEPT !.last = [ev |-> ev, ws |-> id, status |-> st,
                        offered |-> offered, answer |-> answer,
                        connection |-> connection, pending |-> pending]]

\* SOCKET_BUSY_REGION: entry and exit
busy_enter(c, id) == [c EXCEPT !.sck[id].busy = @ + 1]
busy_leave(c, id) == [c EXCEPT !.sck[id].busy = @ - 1]

\* libwebsocket_close_and_free_session on the instance of socket id
close_and_free_session(c, id) == [c EXCEPT !.closes[id] = @ + 1]

wsl_close(c, id) ==
    IF c.sck[id].sck /\ c.sck[id].busy <= 0
    THEN [close_and_free_session(c, id) EXCEPT
             !.sck[id].closing = TRUE,
             !.sck[id].sck     = FALSE,
             !.sck[id].state   = "freed",
             !.frees[id]       = @ + 1]
    ELSE [c EXCEPT !.sck[id].closing = TRUE]

check_closed(c, id) == c.sck[id].closing /\ c.sck[id].busy <= 0

find_pure_http(c, id) ==
    c.sck[id].state = "live" /\ c.sck[id].pure_http /\ c.sck[id].sck

\* the upper layer has control inside a callback of the running handler
InCallback == wsl.stack # << >> /\ Top(wsl).pc \in {"callback", "closed_cb"}

InConnection == wsl.stack # << >> /\ Top(wsl).pc = "connection"

\* lines 1427-1450: LWS_CALLBACK_ESTABLISHED up to the connection callback
established_unchecked(id, known) ==
    LET c == [wsl EXCEPT !.seen[id] = TRUE] IN
    IF ~ known
    THEN Returns(c, "ESTABLISHED", id, LWS_EVENT_DENY, FALSE, "none", TRUE,
                 wsl.pending)
    ELSE Push([c EXCEPT !.pending = id, !.pending_http = FALSE],
              Handler("ESTABLISHED", id, "connection", 0, TRUE))

established(id, known) ==
    LET c == [wsl EXCEPT !.seen[id] = TRUE] IN
    IF wsl.pending # NoWs
    THEN Returns(c, "ESTABLISHED", id, LWS_EVENT_DENY, FALSE, "none", TRUE,
                 wsl.pending)
    ELSE IF ~ known
    THEN Returns(c, "ESTABLISHED", id, LWS_EVENT_DENY, FALSE, "none", TRUE,
                 wsl.pending)
    ELSE Push([c EXCEPT !.pending = id, !.pending_http = FALSE],
              Handler("ESTABLISHED", id, "connection", 0, TRUE))

Established(id, known) ==
    /\ wsl.stack = << >>
    /\ ~ wsl.seen[id]
    /\ wsl' = established(id, known)
    /\ WslUnchanged

\* lines 1268-1310: LWS_CALLBACK_HTTP up to the first callback
http(id) ==
    LET c == [wsl EXCEPT !.seen[id] = TRUE] IN
    IF ~ wsl.has_http
    THEN Returns(c, "HTTP", id, LWS_EVENT_DENY, FALSE, "none",
                 ~ wsl.seen[id], wsl.pending)
    ELSE IF find_pure_http(wsl, id)
    THEN Push(busy_enter(c, id), Handler("HTTP", id, "callback", 0, FALSE))
    ELSE IF wsl.pending # NoWs
    THEN Returns(c, "HTTP", id, LWS_EVENT_DENY, FALSE, "none", TRUE,
                 wsl.pending)
    ELSE Push([c EXCEPT !.pending = id, !.pending_http = TRUE],
              Handler("HTTP", id, "connection", 0, TRUE))

Http(id) ==
    /\ wsl.stack = << >>
    /\ ~ wsl.seen[id] \/ find_pure_http(wsl, id)
    /\ wsl' = http(id)
    /\ WslUnchanged

\* lines 960-1009; ok: the allocations succeed
wsl_accept_pending(ok) ==
    IF wsl.pending = NoWs \/ ~ ok
    THEN MoveTop(wsl, [Top(wsl) EXCEPT !.answer = "failed"])
    ELSE MoveTop([wsl EXCEPT
                     !.sck[wsl.pending] =
                         [state |-> "live", busy |-> 0, closing |-> FALSE,
                          sck |-> TRUE, pure_http |-> wsl.pending_http,
                          gone |-> FALSE],
                     !.pending = NoWs],
                 [Top(wsl) EXCEPT !.answer = "accepted"])

AcceptPending(ok) ==
    /\ InConnection
    /\ Top(wsl).answer = "none"
    /\ wsl' = wsl_accept_pending(ok)
    /\ WslUnchanged

\* lines 1012-1021: nothing but a debug message
wsl_reject_pending == MoveTop(wsl, [Top(wsl) EXCEPT !.answer = "rejected"])

RejectPending ==
    /\ InConnection
    /\ Top(wsl).answer = "none"
    /\ wsl' = wsl_reject_pending
    /\ WslUnchanged

\* lines 1458-1464 and 1311-1329: the connection callback has returned
connection_returned ==
    LET f        == Top(wsl)
        accepted == wsl.pending = NoWs
    IN  IF f.ev = "ESTABLISHED"
        THEN Returns(Pop(wsl), f.ev, f.ws,
                     IF accepted THEN LWS_EVENT_OK ELSE LWS_EVENT_DENY,
                     TRUE, f.answer, TRUE, f.pending)
        ELSE IF accepted
        THEN MoveTop(busy_enter(wsl, f.ws), [f EXCEPT !.pc = "callback"])
        ELSE Returns(Pop(wsl), f.ev, f.ws, LWS_EVENT_DENY, TRUE, f.answer,
                     TRUE, f.pending)

ConnectionReturn ==
    /\ InConnection
    /\ wsl' = connection_returned
    /\ WslUnchanged

\* libwebsockets delivers events for the instance of an accepted websocket
Delivers(id) ==
    /\ wsl.sck[id].state = "live"
    /\ ~ wsl.sck[id].pure_http
    /\ ~ wsl.sck[id].gone

\* lines 1499-1524 and 1530-1536: LWS_CALLBACK_RECEIVE up to the first
\* callback; pushed: mrp_fragbuf_push succeeds, n: complete messages then
receive(id, pushed, n) ==
    IF pushed
    THEN IF n = 0
         THEN Returns(wsl, "RECEIVE", id, LWS_EVENT_OK, FALSE, "none", FALSE,
                      wsl.pending)
         ELSE Push(busy_enter(wsl, id),
                   Handler("RECEIVE", id, "callback", n - 1, FALSE))
    ELSE Push([busy_enter(wsl, id) EXCEPT !.sck[id].closing = TRUE],
              Handler("RECEIVE", id, "closed_cb", 0, FALSE))

Receive(id, pushed, n) ==
    /\ Delivers(id)
    /\ wsl.stack = << >> \/ (InCallback /\ Len(wsl.stack) < MaxDepth)
    /\ pushed \/ wsl.closes[id] < MaxCloses
    /\ wsl' = receive(id, pushed, n)
    /\ WslUnchanged

\* lines 1466-1479: LWS_CALLBACK_CLOSED up to the closed callback
Closed(id) ==
    /\ Delivers(id)
    /\ wsl.stack = << >>
    /\ wsl' = Push([busy_enter(wsl, id) EXCEPT !.sck[id].gone = TRUE],
                   Handler("CLOSED", id, "callback", 0, FALSE))
    /\ WslUnchanged

\* the upper layer calls wsl_close on a socket it holds
Close(id) ==
    /\ wsl.sck[id].state = "live"
    /\ \/ wsl.stack = << >>
       \/ InCallback
       \/ InConnection /\ id # Top(wsl).ws
    /\ wsl' = wsl_close(wsl, id)
    /\ WslUnchanged

\* lines 1537-1539: the closed callback of the error path has returned
error_close ==
    MoveTop(close_and_free_session(wsl, Top(wsl).ws),
            [Top(wsl) EXCEPT !.pc = "callback"])

ErrorClose ==
    /\ wsl.stack # << >>
    /\ Top(wsl).pc = "closed_cb"
    /\ wsl' = error_close
    /\ WslUnchanged

\* the busy region ends: lines 1526-1528, 1542, 1481 and 1289-1293
region_end ==
    LET f == Top(wsl)
        c == busy_leave(wsl, f.ws)
    IN  IF check_closed(c, f.ws)
        THEN Returns(Pop(wsl_close(c, f.ws)), f.ev, f.ws, LWS_EVENT_OK,
                     f.connection, f.answer, f.connection, f.pending)
        ELSE IF f.more > 0
        THEN MoveTop(busy_enter(c, f.ws), [f EXCEPT !.more = @ - 1])
        ELSE Returns(Pop(c), f.ev, f.ws, LWS_EVENT_OK, f.connection,
                     f.answer, f.connection, f.pending)

RegionEnd ==
    /\ wsl.stack # << >>
    /\ Top(wsl).pc = "callback"
    /\ wsl' = region_end
    /\ WslUnchanged

NextWsl ==
    \/ \E id \in WsIds, known \in BOOLEAN : Established(id, known)
    \/ \E id \in WsIds : Http(id)
    \/ \E ok \in BOOLEAN : AcceptPending(ok)
    \/ RejectPending
    \/ ConnectionReturn
    \/ \E id \in WsIds, pushed \in BOOLEAN, n \in 0..MaxMsgs :
          Receive(id, pushed, n)
    \/ \E id \in WsIds : Closed(id)
    \/ \E id \in WsIds : Close(id)
    \/ ErrorClose
    \/ RegionEnd

SpecWsl == InitWsl /\ [][NextWsl]_vars

\* C33: a connection event (ESTABLISHED, or the first HTTP event of an
\* instance) that finds a pending connection is denied without the connection
\* callback being called, and a connection event returns LWS_EVENT_OK exactly
\* when wsl_accept_pending succeeded during its connection callback.
C33_OnePendingConnection ==
    wsl.last.connection =>
        /\ wsl.last.pending # NoWs =>
              wsl.last.status = LWS_EVENT_DENY /\ ~ wsl.last.offered
        /\ wsl.last.status = LWS_EVENT_OK <=>
              (wsl.last.offered /\ wsl.last.answer = "accepted")

C33_Witness ==
    /\ wsl.last.connection
    /\ wsl.last.pending # NoWs
    /\ wsl.last.status = LWS_EVENT_DENY
    /\ ~ wsl.last.offered

\* C34: once the handler of a connection event has returned, the context has
\* no pending connection, whether the upper layer accepted it or not.
C34_NoPendingAfterHandler ==
    wsl.stack = << >> => wsl.pending = NoWs

\* C35: no socket is freed while a handler is in a busy region on it, and a
\* socket that was freed had its session closed once and was freed once.
C35_DeferredClose ==
    /\ \A n \in 1..Len(wsl.stack) :
          wsl.stack[n].pc \in {"callback", "closed_cb"} =>
              /\ wsl.sck[wsl.stack[n].ws].state = "live"
              /\ wsl.sck[wsl.stack[n].ws].busy > 0
    /\ \A id \in WsIds :
          wsl.sck[id].state = "freed" =>
              wsl.closes[id] = 1 /\ wsl.frees[id] = 1

\* C36: libwebsocket_close_and_free_session is called at most once for the
\* session of a socket.
C36_SessionClosedOnce ==
    \A id \in WsIds : wsl.closes[id] <= 1

(***************************************************************************)
(* The descriptors libwebsockets asks the context to poll: the table       *)
(* wsc->fds beside the epoll set of wsc->epollfd.  Masks are sets of       *)
(* flags.  epoll_ctl fails for ADD of a registered descriptor and for MOD  *)
(* of an unregistered one, and may fail for other reasons (ok = FALSE).    *)
(***************************************************************************)
MaxFd == 2

PollFds   == 1..MaxFd
PollFlags == {"POLLIN", "POLLOUT", "POLLPRI"}
PollMasks == SUBSET PollFlags

\* the descriptor is not in the epoll set
NotPolled == [polled |-> FALSE, events |-> {}]

Polled(events) == [polled |-> TRUE, events |-> events]

map_poll_to_event(in) ==
    {e \in {"IN", "OUT", "HUP", "ERR"} :
        \/ e = "IN"  /\ "POLLIN"  \in in
        \/ e = "OUT" /\ "POLLOUT" \in in
        \/ e = "HUP" /\ "POLLHUP" \in in
        \/ e = "ERR" /\ "POLLERR" \in in}

InitPoll ==
    /\ ResolverIdle
    /\ wsl = Built /\ cnd = Built /\ zone = Built
    /\ poll = [fds   |-> << >>,
               epoll |-> [fd \in PollFds |-> NotPolled],
               added |-> {},
               ret   |-> TRUE]

PollUnchanged == UNCHANGED << engine, b, s, nest, wsl, cnd, zone >>

\* lines 570-581: the index of the first entry of fd, 0 for NULL
find_fd(fd) ==
    IF \E n \in 1..Len(poll.fds) : poll.fds[n].fd = fd
    THEN CHOOSE n \in 1..Len(poll.fds) :
            /\ poll.fds[n].fd = fd
            /\ \A m \in 1..(n - 1) : poll.fds[m].fd # fd
    ELSE 0

\* lines 515-538; ok: epoll_ctl has no other reason to fail, alloc: realloc
add_fd(fd, events, ok, alloc) ==
    IF ok /\ poll.epoll[fd] = NotPolled
    THEN IF alloc
         THEN [poll EXCEPT
                  !.fds   = Append(@, [fd |-> fd,
                                       events |-> map_poll_to_event(events)]),
                  !.epoll[fd] = Polled(map_poll_to_event(events)),
                  !.added = @ \cup {fd},
                  !.ret   = TRUE]
         ELSE [poll EXCEPT !.ret = FALSE]
    ELSE [poll EXCEPT !.ret = FALSE]

AddPollFd(fd, events, ok, alloc) ==
    /\ poll' = add_fd(fd, events, ok, alloc)
    /\ PollUnchanged

\* lines 541-567
del_fd(fd) ==
    LET n == find_fd(fd) IN
    IF n # 0
    THEN [poll EXCEPT
             !.fds   = SubSeq(@, 1, n - 1) \o SubSeq(@, n + 1, Len(@)),
             !.epoll[fd] = NotPolled,
             !.added = @ \ {fd},
             !.ret   = TRUE]
    ELSE [poll EXCEPT !.epoll[fd] = NotPolled,
                      !.added = @ \ {fd},
                      !.ret = FALSE]

DelPollFd(fd) ==
    /\ poll' = del_fd(fd)
    /\ PollUnchanged

\* lines 584-607
mod_fd(fd, events, clear, ok) ==
    LET n == find_fd(fd)
        e == IF clear
             THEN poll.fds[n].events \ map_poll_to_event(events)
             ELSE poll.fds[n].events \cup map_poll_to_event(events)
    IN  IF n # 0 /\ ok /\ poll.epoll[fd] # NotPolled
        THEN [poll EXCEPT !.epoll[fd] = Polled(e), !.ret = TRUE]
        ELSE [poll EXCEPT !.ret = FALSE]

SetModePollFd(fd, events, ok) ==
    /\ poll' = mod_fd(fd, events, FALSE, ok)
    /\ PollUnchanged

ClearModePollFd(fd, events, ok) ==
    /\ poll' = mod_fd(fd, events, TRUE, ok)
    /\ PollUnchanged

NextPoll ==
    \/ \E fd \in PollFds, events \in PollMasks, ok \in BOOLEAN,
          alloc \in BOOLEAN : AddPollFd(fd, events, ok, alloc)
    \/ \E fd \in PollFds : DelPollFd(fd)
    \/ \E fd \in PollFds, events \in PollMasks, ok \in BOOLEAN :
          SetModePollFd(fd, events, ok)
    \/ \E fd \in PollFds, events \in PollMasks, ok \in BOOLEAN :
          ClearModePollFd(fd, events, ok)

SpecPoll == InitPoll /\ [][NextPoll]_vars

\* the table holds exactly the descriptors added and not deleted, each once
TableHoldsAdded ==
    /\ {poll.fds[n].fd : n \in 1..Len(poll.fds)} = poll.added
    /\ \A n, m \in 1..Len(poll.fds) :
          poll.fds[n].fd = poll.fds[m].fd => n = m

\* C37: the table holds exactly the descriptors added and not deleted, each
\* once, and the mask recorded for a descriptor is the mask registered for it
\* in the epoll set.
C37_TableMatchesEpoll ==
    /\ TableHoldsAdded
    /\ \A n \in 1..Len(poll.fds) :
          poll.epoll[poll.fds[n].fd] = Polled(poll.fds[n].events)

(***************************************************************************)
(* mdb_cond_evaluate: the operator-precedence evaluation of a condition.   *)
(* A condition is a list of entries: integer variables, operators,         *)
(* entries of an unknown type, and the closing end.  The conditions        *)
(* examined have no inner begin ... end                                    *)
(* groups.  The stack is the array stack[] with sp and lastop as indexes.  *)
(***************************************************************************)
MaxTokens == 5

PRECEDENCE_DATA == 256
INT_MAX         == 2147483647

RelOps    == {"less", "leq", "eq", "geq", "gt"}
BinaryOps == {"and", "or"} \cup RelOps
Operators == BinaryOps \cup {"not"}
Operands  == {0, 1}

\* mqi_cond_entry_t: an integer variable, an operator, an entry of a type
\* mdb_cond_evaluate does not know
Variable(v)  == [type |-> "variable", operator |-> "done", integer |-> v]
Operator(op) == [type |-> "operator", operator |-> op, integer |-> 0]
Unknown      == [type |-> "unknown", operator |-> "done", integer |-> 0]

Entries == {Variable(v) : v \in Operands} \cup {Operator(op) : op \in Operators}

IsBinary(c) == c.type = "operator" /\ c.operator \in BinaryOps

\* lines 52-63
precedence_and_over_or(op) ==
    CASE op = "begin"   -> 1
      [] op = "and"     -> 3
      [] op = "or"      -> 2
      [] op \in RelOps  -> 4
      [] op = "not"     -> 5
      [] OTHER          -> 0

precedence(op) ==
    CASE op = "begin"   -> 1
      [] op = "and"     -> 2
      [] op = "or"      -> 3
      [] op \in RelOps  -> 4
      [] op = "not"     -> 5
      [] OTHER          -> 0

\* a slot of stack[]: zero-filled, an operator, an integer operand
ZeroSlot == [precedence |-> 0, operator |-> "done", type |-> "zero",
             integer |-> 0]
OperatorSlot(op, pr) ==
    [precedence |-> pr, operator |-> op, type |-> "zero", integer |-> 0]
DataSlot(v) ==
    [precedence |-> PRECEDENCE_DATA, operator |-> "data",
     type |-> "integer", integer |-> v]

StackSlots == 0..(MaxTokens + 2)

\* line 66-68
InitialStack ==
    [n \in StackSlots |->
        IF n = 0 THEN OperatorSlot("begin", precedence("begin")) ELSE ZeroSlot]

\* lines 253-308, operands of type mqi_integer
cond_relop(op, v1, v2) ==
    IF /\ v1.precedence >= PRECEDENCE_DATA
       /\ v2.precedence >= PRECEDENCE_DATA
       /\ v1.type = v2.type
       /\ v1.type = "integer"
    THEN LET cmp == IF v1.integer > v2.integer THEN 1
                    ELSE IF v1.integer = v2.integer THEN 0 ELSE 0 - 1
         IN  CASE op = "less" -> IF cmp < 0  THEN 1 ELSE 0
               [] op = "leq"  -> IF cmp <= 0 THEN 1 ELSE 0
               [] op = "eq"   -> IF cmp = 0  THEN 1 ELSE 0
               [] op = "geq"  -> IF cmp >= 0 THEN 1 ELSE 0
               [] op = "gt"   -> IF cmp > 0  THEN 1 ELSE 0
               [] OTHER       -> 0
    ELSE 0

\* lines 310-345
cond_binary_logicop(op, v1, v2) ==
    IF /\ v1.precedence >= PRECEDENCE_DATA
       /\ v2.precedence >= PRECEDENCE_DATA
       /\ v1.type = v2.type
       /\ v1.type = "integer"
    THEN CASE op = "and" ->
                 IF v1.integer # 0 /\ v2.integer # 0 THEN 1 ELSE 0
           [] op = "or" ->
                 IF v1.integer # 0 \/ v2.integer # 0 THEN 1 ELSE 0
           [] OTHER -> 0
    ELSE 0

\* lines 347-361
cond_unary_logicop(op, v) ==
    IF v.precedence >= PRECEDENCE_DATA /\ op = "not" /\ v.type = "integer"
    THEN IF v.integer # 0 THEN 0 ELSE 1
    ELSE 0

\* lines 232-234: the nearest operator at or below slot n (slot 0 holds begin
\* until the last reduction)
RECURSIVE find_new_lastop(_, _)
find_new_lastop(st, n) ==
    IF n = 0 \/ st[n].precedence < PRECEDENCE_DATA
    THEN n
    ELSE find_new_lastop(st, n - 1)

\* lines 237-240
store_on_stack(st, result, value) == [st EXCEPT ![result] = DataSlot(value)]

\* lines 192-250: the stack and the stack_advance cond_eval leaves
RECURSIVE cond_eval(_, _, _, _, _)
cond_eval(st, sp, lastop, new_precedence, stack_advance) ==
    IF ~ (new_precedence < st[lastop].precedence)
    THEN [stack |-> st, stack_advance |-> stack_advance]
    ELSE
      LET op == st[lastop].operator IN
      CASE op = "begin" ->
             cond_eval(store_on_stack(st, lastop, st[lastop + 1].integer),
                       sp, lastop, INT_MAX, (lastop + 1) - sp)
        [] op \in {"and", "or"} ->
             cond_eval(store_on_stack(st, lastop - 1,
                           cond_binary_logicop(op, st[lastop - 1],
                                               st[lastop + 1])),
                       sp, find_new_lastop(st, lastop - 1), new_precedence,
                       lastop - sp)
        [] op \in RelOps ->
             cond_eval(store_on_stack(st, lastop - 1,
                           cond_relop(op, st[lastop - 1], st[lastop + 1])),
                       sp, find_new_lastop(st, lastop - 1), new_precedence,
                       lastop - sp)
        [] op = "not" ->
             cond_eval(store_on_stack(st, lastop,
                           cond_unary_logicop(op, st[lastop + 1])),
                       sp, find_new_lastop(st, lastop - 1), new_precedence,
                       (lastop + 1) - sp)
        [] OTHER ->
             [stack |-> st, stack_advance |-> stack_advance]

\* a complete condition without groups: operands joined by binary operators,
\* each operand after any number of not
RECURSIVE Complete(_)
Complete(e) ==
    /\ e # << >>
    /\ IF e[1] = Operator("not")
       THEN Complete(Tail(e))
       ELSE /\ e[1].type = "variable"
            /\ \/ Len(e) = 1
               \/ /\ Len(e) >= 3
                  /\ IsBinary(e[2])
                  /\ Complete(SubSeq(e, 3, Len(e)))

Conditions ==
    UNION {{e \in [1..n -> Entries] : Complete(e)} :
              n \in 1..MaxTokens}

\* the condition with its entry k of an unknown type
Spoiled(e, k) == [n \in 1..Len(e) |-> IF n = k THEN Unknown ELSE e[n]]

InitCond ==
    /\ ResolverIdle
    /\ wsl = Built /\ poll = Built /\ zone = Built
    /\ \E e \in Conditions, k \in 0..MaxTokens :
        /\ k <= Len(e)
        /\ cnd = [cond   |-> Append(IF k = 0 THEN e ELSE Spoiled(e, k),
                                    Operator("end")),
                  asked  |-> e,
                  at     |-> 1,
                  stack  |-> InitialStack,
                  sp     |-> 1,
                  lastop |-> 0,
                  pc     |-> "run",
                  result |-> 0,
                  errno  |-> 0]

CondUnchanged == UNCHANGED << engine, b, s, nest, wsl, poll, zone >>

Entry == cnd.cond[cnd.at]

\* lines 126-130: an operand is pushed
EvalData ==
    /\ cnd.pc = "run"
    /\ Entry.type = "variable"
    /\ cnd' = [cnd EXCEPT !.stack[cnd.sp] = DataSlot(Entry.integer),
                          !.sp = @ + 1,
                          !.at = @ + 1]
    /\ CondUnchanged

\* lines 79-81 and 107-119: the operators before it are reduced and the
\* operator is pushed
EvalOperator ==
    /\ cnd.pc = "run"
    /\ Entry.type = "operator"
    /\ Entry.operator \in Operators
    /\ LET pr == precedence(Entry.operator)
           e  == cond_eval(cnd.stack, cnd.sp, cnd.lastop, pr, 0)
           sp == cnd.sp + e.stack_advance
       IN  cnd' = [cnd EXCEPT !.stack  = [e.stack EXCEPT
                                             ![sp] =
                                                 OperatorSlot(Entry.operator,
                                                              pr)],
                              !.lastop = sp,
                              !.sp     = sp + 1,
                              !.at     = @ + 1]
    /\ CondUnchanged

\* lines 79-81 and 96-105: the closing end
EvalEnd ==
    /\ cnd.pc = "run"
    /\ Entry = Operator("end")
    /\ LET e  == cond_eval(cnd.stack, cnd.sp, cnd.lastop,
                           precedence(Entry.operator), 0)
           sp == cnd.sp + e.stack_advance - 1
       IN  IF e.stack[sp].precedence < PRECEDENCE_DATA
              \/ e.stack[sp].type # "integer"
           THEN cnd' = [cnd EXCEPT !.stack = e.stack, !.sp = sp,
                                   !.pc = "returned", !.errno = ENOENT,
                                   !.result = 0 - 1]
           ELSE cnd' = [cnd EXCEPT !.stack = e.stack, !.sp = sp,
                                   !.pc = "returned",
                                   !.result = IF e.stack[sp].integer # 0
                                              THEN 1 ELSE 0]
    /\ CondUnchanged

\* lines 132-134: an entry that is neither operator nor operand
EvalUnknown ==
    /\ cnd.pc = "run"
    /\ Entry.type = "unknown"
    /\ cnd' = [cnd EXCEPT !.pc = "returned", !.errno = EINVAL,
                          !.result = 0 - 1]
    /\ CondUnchanged

NextCond ==
    \/ EvalData
    \/ EvalOperator
    \/ EvalEnd
    \/ EvalUnknown

SpecCond == InitCond /\ [][NextCond]_vars

\* how tightly a binary operator binds: and loosest, then or, then the
\* relational operators
Binds(op) == IF op = "and" THEN 1 ELSE IF op = "or" THEN 2 ELSE 3

Truth(x) == IF x THEN 1 ELSE 0

Applied(op, x, y) ==
    CASE op = "and"  -> Truth(x # 0 /\ y # 0)
      [] op = "or"   -> Truth(x # 0 \/ y # 0)
      [] op = "less" -> Truth(x < y)
      [] op = "leq"  -> Truth(x <= y)
      [] op = "eq"   -> Truth(x = y)
      [] op = "geq"  -> Truth(x >= y)
      [] op = "gt"   -> Truth(x > y)

BinaryAt(e) == {n \in 1..Len(e) : IsBinary(e[n])}

\* the loosest binary operator, the leftmost of them: with equal precedence
\* grouped to the right, it is applied last
Outermost(e) ==
    CHOOSE n \in BinaryAt(e) :
        /\ \A m \in BinaryAt(e) :
              Binds(e[n].operator) <= Binds(e[m].operator)
        /\ \A m \in BinaryAt(e) :
              Binds(e[m].operator) = Binds(e[n].operator) => n <= m

\* the value of a complete condition read with not binding tightest, then
\* the relational operators, then or, then and
RECURSIVE Value(_)
Value(e) ==
    IF BinaryAt(e) # {}
    THEN Applied(e[Outermost(e)].operator,
                 Value(SubSeq(e, 1, Outermost(e) - 1)),
                 Value(SubSeq(e, Outermost(e) + 1, Len(e))))
    ELSE IF e[1] = Operator("not")
    THEN Truth(Value(Tail(e)) = 0)
    ELSE e[1].integer

Unspoiled == cnd.cond = Append(cnd.asked, Operator("end"))

\* C38: a complete condition evaluates to the value it has when not binds
\* tightest, then the relational operators, then or, then and, operators of
\* equal precedence grouped to the right; a condition with an entry of
\* unknown type gives -1; so every result is 1, 0 or -1.
C38_PrecedenceAndGrouping ==
    cnd.pc = "returned" =>
        /\ cnd.result \in {1, 0, 0 - 1}
        /\ Unspoiled => cnd.result = Truth(Value(cnd.asked) # 0)
        /\ ~ Unspoiled => cnd.result = 0 - 1

C38_Witness ==
    /\ cnd.pc = "returned"
    /\ cnd.cond = << Variable(0), Operator("and"), Variable(0),
                     Operator("or"), Variable(1), Operator("end") >>
    /\ cnd.result = 0

(***************************************************************************)
(* The zone table: zone_def, zone_count and zone_table[MRP_ZONE_MAX].  A   *)
(* zone is written as its name, NULL as the empty name.  The history       *)
(* fields op, ret, ids, before and found record the last call, the ids     *)
(* handed out, the table before the last call and the last lookup.         *)
(***************************************************************************)
MRP_ZONE_MAX == 3

\* the id no zone has, outside 0..MRP_ZONE_MAX - 1
MRP_ZONE_ID_INVALID == 0 - 1

ZoneNames == {"driver", "passenger"}
ZoneIds   == 0..(MRP_ZONE_MAX + 1)
NoZone    == NoName

\* lines 460-462: the statics
ZoneTable(z) == [zone_def |-> z.zone_def, zone_count |-> z.zone_count,
                 zone_table |-> z.zone_table]

InitZone ==
    /\ ResolverIdle
    /\ wsl = Built /\ poll = Built /\ cnd = Built
    /\ zone = [zone_def   |-> FALSE,
               zone_count |-> 0,
               zone_table |-> [id \in 0..(MRP_ZONE_MAX - 1) |-> NoZone],
               op         |-> "none",
               ret        |-> 0,
               ids        |-> << >>,
               before     |-> << >>,
               found      |-> [id |-> 0, zone |-> NoZone]]

ZoneUnchanged == UNCHANGED << engine, b, s, nest, wsl, poll, cnd >>

Called(z, op, ret_) == [z EXCEPT !.op = op, !.ret = ret_,
                                 !.before = ZoneTable(zone)]

\* lines 465-488; alloc: mrp_allocz succeeds, copied: the definitions copy
mrp_zone_definition_create(alloc, copied) ==
    IF ~ alloc
    THEN Called(zone, "define", 0 - 1)
    ELSE Called([zone EXCEPT !.zone_def = TRUE], "define",
                IF copied THEN 0 ELSE 0 - 1)

DefinitionCreate(alloc, copied) ==
    /\ zone' = mrp_zone_definition_create(alloc, copied)
    /\ ZoneUnchanged

\* lines 495-538; alloc: both allocations succeed, set: the attribute values
\* are set
mrp_zone_create_unchecked(name, alloc, set) ==
    IF ~ zone.zone_def
    THEN Called(zone, "create", MRP_ZONE_ID_INVALID)
    ELSE IF ~ alloc
    THEN Called(zone, "create", MRP_ZONE_ID_INVALID)
    ELSE IF ~ set
    THEN Called(zone, "create", MRP_ZONE_ID_INVALID)
    ELSE Called([zone EXCEPT !.zone_count = @ + 1,
                             !.zone_table =
                                 [id \in DOMAIN @ \cup {zone.zone_count} |->
                                     IF id = zone.zone_count THEN name
                                     ELSE @[id]],
                             !.ids = Append(@, zone.zone_count)],
                "create", zone.zone_count)

mrp_zone_create(name, alloc, set) ==
    IF ~ zone.zone_def
    THEN Called(zone, "create", MRP_ZONE_ID_INVALID)
    ELSE IF zone.zone_count >= MRP_ZONE_MAX
    THEN Called(zone, "create", MRP_ZONE_ID_INVALID)
    ELSE IF ~ alloc
    THEN Called(zone, "create", MRP_ZONE_ID_INVALID)
    ELSE IF ~ set
    THEN Called(zone, "create", MRP_ZONE_ID_INVALID)
    ELSE Called([zone EXCEPT !.zone_count = @ + 1,
                             !.zone_table[zone.zone_count] = name,
                             !.ids = Append(@, zone.zone_count)],
                "create", zone.zone_count)

ZoneCreate(name, alloc, set) ==
    /\ zone.zone_count <= MRP_ZONE_MAX
    /\ zone' = mrp_zone_create(name, alloc, set)
    /\ ZoneUnchanged

\* lines 540-546
mrp_zone_find_by_id(id) ==
    IF id < zone.zone_count THEN zone.zone_table[id] ELSE NoZone

ZoneFindById(id) ==
    /\ zone' = [Called(zone, "find", 0) EXCEPT
                   !.found = [id |-> id, zone |-> mrp_zone_find_by_id(id)]]
    /\ ZoneUnchanged

NextZone ==
    \/ \E alloc \in BOOLEAN, copied \in BOOLEAN :
          DefinitionCreate(alloc, copied)
    \/ \E name \in ZoneNames, alloc \in BOOLEAN, set \in BOOLEAN :
          ZoneCreate(name, alloc, set)
    \/ \E id \in ZoneIds : ZoneFindById(id)

SpecZone == InitZone /\ [][NextZone]_vars

\* C39: zone_count never exceeds MRP_ZONE_MAX, the ids handed out are 0, 1,
\* 2, ... in creation order, a creation that returns MRP_ZONE_ID_INVALID
\* leaves zone_count and zone_table as they were, and a lookup finds a zone
\* exactly for the ids below zone_count.
C39_ZoneTable ==
    /\ zone.zone_count <= MRP_ZONE_MAX
    /\ zone.ids = [n \in 1..zone.zone_count |-> n - 1]
    /\ (zone.op = "create" /\ zone.ret = MRP_ZONE_ID_INVALID) =>
          /\ zone.zone_count = zone.before.zone_count
          /\ zone.zone_table = zone.before.zone_table
    /\ (zone.op = "create" /\ zone.ret # MRP_ZONE_ID_INVALID) =>
          /\ zone.ret = zone.before.zone_count
          /\ zone.zone_count = zone.before.zone_count + 1
    /\ zone.op = "find" =>
          (zone.found.zone # NoZone <=> zone.found.id < zone.zone_count)

C39_Witness ==
    /\ zone.op = "create"
    /\ zone.ret = MRP_ZONE_ID_INVALID
    /\ zone.zone_count = MRP_ZONE_MAX
    /\ zone.ids = [n \in 1..MRP_ZONE_MAX |-> n - 1]

=============================================================================
